---- MODULE Spec2Model ----
(***************************************************************************)
(* Model of the buna route codegen (dev/generate-routes.ts) and of the     *)
(* Cloudflare worker builder (cloudflare/builder.ts) together with the     *)
(* worker script the builder emits, and of the build and prepare commands  *)
(* of the CLI (cli/index.ts, scripts/prepare-buna.ts).                     *)
(*                                                                         *)
(* Strings of the program are sequences of one-character strings, so that  *)
(* split / startsWith / slice / regex matching are computed character by   *)
(* character as the code computes them.                                    *)
(***************************************************************************)
EXTENDS Integers, Sequences, FiniteSets, TLC

VARIABLES
    routeFiles,   \* absolute paths of the route files under config.routesDir
    disk,         \* generated / written files: function path -> contents
    env,          \* what the host gives the build: Tailwind plugin, bundler outcome
    calls,        \* edits: number of edits of the project so far;
                  \* codegenDone: codegen ran and the project was not edited since
    pc,           \* position of buildCloudflareWorker: idle (not started), pages, done, failed
    opts,         \* CloudflareBuildOptions of the running / last build
    htmlFiles,    \* result of collectHtmlFiles, in collection order
    idx,          \* index in htmlFiles of the next page of the for loop
    ctx,          \* TransformContext
    routes,       \* HtmlRouteRecord[] of the running / last build
    pageLog,      \* what the running / last build did: entries compiled, tags replaced, error thrown
    snapshot,     \* the disk when the running / last build started
    result,       \* CloudflareBuildResult of the last successful build
    response,     \* last request handled by an emitted worker, with its response
    fnIn,         \* input of the pure function under check
    fnOut,        \* its output
    cli           \* the command of the buna CLI being run: its arguments, position and exit

vars == <<routeFiles, disk, env, calls, pc, opts, htmlFiles, idx, ctx, routes,
          pageLog, snapshot, result, response, fnIn, fnOut, cli>>

buildVars == <<pc, opts, htmlFiles, idx, ctx, routes, pageLog, snapshot, result>>

(***************************************************************************)
(* Option values: None is <<>>, Some(x) is <<x>>.                          *)
(***************************************************************************)
None == <<>>
Some(x) == <<x>>
IsSome(o) == Len(o) = 1
Get(o) == o[1]

(***************************************************************************)
(* String primitives (JavaScript String.prototype).                        *)
(***************************************************************************)
startsWith(s, p) == Len(s) >= Len(p) /\ SubSeq(s, 1, Len(p)) = p

endsWith(s, p) == Len(s) >= Len(p) /\ SubSeq(s, Len(s) - Len(p) + 1, Len(s)) = p

includes(s, c) == \E i \in 1..Len(s) : s[i] = c

\* s.slice(from) with a 0-based start
sliceFrom(s, from) == SubSeq(s, from + 1, Len(s))

\* s.slice(0, -n)
dropLast(s, n) == SubSeq(s, 1, Len(s) - n)

\* s.slice(1, -1)
sliceInner(s) == SubSeq(s, 2, Len(s) - 1)

RECURSIVE splitAcc(_, _, _, _)
splitAcc(s, c, i, cur) ==
    IF i > Len(s) THEN <<cur>>
    ELSE IF s[i] = c THEN <<cur>> \o splitAcc(s, c, i + 1, <<>>)
    ELSE splitAcc(s, c, i + 1, Append(cur, s[i]))

\* s.split(c) for a one-character separator
split(s, c) == splitAcc(s, c, 1, <<>>)

RECURSIVE joinWith(_, _)
joinWith(segs, sep) ==
    IF Len(segs) = 0 THEN <<>>
    ELSE IF Len(segs) = 1 THEN segs[1]
    ELSE segs[1] \o sep \o joinWith(Tail(segs), sep)

\* arr.filter(Boolean) on an array of strings
filterNonEmpty(segs) == SelectSeq(segs, LAMBDA x : x # <<>>)

Slash == <<"/">>

(***************************************************************************)
(* node:path (posix).                                                      *)
(***************************************************************************)
isAbsolute(p) == Len(p) > 0 /\ p[1] = "/"

RECURSIVE normalizeSegs(_, _, _)
normalizeSegs(segs, acc, abs) ==
    IF Len(segs) = 0 THEN acc
    ELSE LET h == segs[1] t == Tail(segs) IN
         IF h = <<>> \/ h = <<".">> THEN normalizeSegs(t, acc, abs)
         ELSE IF h = <<".", ".">>
              THEN IF Len(acc) > 0 /\ acc[Len(acc)] # <<".", ".">>
                   THEN normalizeSegs(t, SubSeq(acc, 1, Len(acc) - 1), abs)
                   ELSE IF abs THEN normalizeSegs(t, acc, abs)
                   ELSE normalizeSegs(t, Append(acc, h), abs)
         ELSE normalizeSegs(t, Append(acc, h), abs)

pathSegs(p) == normalizeSegs(split(p, "/"), <<>>, isAbsolute(p))

\* path.join(a, b)
join(a, b) ==
    LET p == a \o Slash \o b
        segs == pathSegs(p)
    IN IF isAbsolute(p) THEN Slash \o joinWith(segs, Slash)
       ELSE IF Len(segs) = 0 THEN <<".">> ELSE joinWith(segs, Slash)

\* path.resolve(base, p) for an absolute base
resolve(base, p) ==
    IF isAbsolute(p) THEN Slash \o joinWith(pathSegs(p), Slash)
    ELSE Slash \o joinWith(pathSegs(base \o Slash \o p), Slash)

\* path.dirname(p)
dirname(p) ==
    LET segs == split(p, "/") IN
    IF Len(segs) <= 1 THEN <<".">>
    ELSE LET d == joinWith(SubSeq(segs, 1, Len(segs) - 1), Slash) IN
         IF d = <<>> THEN Slash ELSE d

RECURSIVE commonLen(_, _)
commonLen(a, b) ==
    IF Len(a) = 0 \/ Len(b) = 0 \/ a[1] # b[1] THEN 0
    ELSE 1 + commonLen(Tail(a), Tail(b))

\* the relative path between two lists of segments, n of which are common
relativeSegs(f, t, n) ==
    joinWith([i \in 1..(Len(f) - n) |-> <<".", ".">>] \o SubSeq(t, n + 1, Len(t)), Slash)

\* path.relative(from, to) for absolute paths
relative(from, to) ==
    relativeSegs(pathSegs(from), pathSegs(to), commonLen(pathSegs(from), pathSegs(to)))

(***************************************************************************)
(* dev/generate-routes.ts: route file -> route path.                       *)
(***************************************************************************)
ScriptExts == { <<".", "t", "s", "x">>, <<".", "j", "s", "x">>,
                <<".", "t", "s">>, <<".", "j", "s">> }

\* s.replace(/\.(tsx|jsx|ts|js)$/, "")
stripScriptExt(s) ==
    IF \E e \in ScriptExts : endsWith(s, e)
    THEN LET e == CHOOSE e \in ScriptExts : endsWith(s, e) IN dropLast(s, Len(e))
    ELSE s

StrIndex == <<"i", "n", "d", "e", "x">>
Dots == <<".", ".", ".">>

\* mapRouteSegment without the catch-all branch
mapRouteSegment_noCatchAll(segment) ==
    IF startsWith(segment, <<"[">>) /\ endsWith(segment, <<"]">>)
    THEN <<":">> \o sliceInner(segment)
    ELSE segment

mapRouteSegment(segment) ==
    IF startsWith(segment, <<"[">>) /\ endsWith(segment, <<"]">>)
    THEN LET inner == sliceInner(segment) IN
         IF startsWith(inner, Dots) THEN <<"*">> ELSE <<":">> \o inner
    ELSE segment

\* s.replace(/\\/g, "/")
backslashToSlash(s) == [i \in 1..Len(s) |-> IF s[i] = "\\" THEN "/" ELSE s[i]]

\* lines 28-60: the route of the segments of the path without extension
routeOfSegments(segments) ==
    IF Len(segments) = 1 /\ segments[1] = StrIndex THEN Slash
    ELSE LET isIndexRoute == segments[Len(segments)] = StrIndex
             coreSegments == IF isIndexRoute
                             THEN SubSeq(segments, 1, Len(segments) - 1)
                             ELSE segments
             mapped == [i \in 1..Len(coreSegments) |-> mapRouteSegment(coreSegments[i])]
         IN IF Len(mapped) = 0 THEN Slash
            ELSE Slash \o joinWith(mapped, Slash)

filePathToRoute(pathname, routesDir) ==
    routeOfSegments(split(stripScriptExt(backslashToSlash(relative(routesDir, pathname))), "/"))

(***************************************************************************)
(* cloudflare/builder.ts: route pattern of a page file.                    *)
(***************************************************************************)
HtmlExt == <<".", "h", "t", "m", "l">>

stripHtmlExt(s) == IF endsWith(s, HtmlExt) THEN dropLast(s, Len(HtmlExt)) ELSE s

\* lines 165-188: the route of the segments of the page path without extension
inferRouteOfSegments(segments) ==
    IF Len(segments) = 1 /\ segments[1] = StrIndex THEN Slash
    ELSE LET arr == filterNonEmpty(segments)
             mappedAll == [i \in 1..Len(arr) |->
                             IF i = Len(arr) /\ arr[i] = StrIndex THEN <<>>
                             ELSE IF startsWith(arr[i], <<"[">>) /\ endsWith(arr[i], <<"]">>)
                                  THEN IF startsWith(arr[i], <<"[", ".", ".", ".">>)
                                       THEN <<"*">>
                                       ELSE <<":">> \o sliceInner(arr[i])
                                  ELSE arr[i]]
             normalizedSegments == filterNonEmpty(mappedAll)
         IN IF Len(normalizedSegments) = 0 THEN Slash
            ELSE Slash \o joinWith(normalizedSegments, Slash)

inferRouteFromFile(filePath, pagesDir) ==
    inferRouteOfSegments(split(stripHtmlExt(backslashToSlash(relative(pagesDir, filePath))), "/"))

(***************************************************************************)
(* cloudflare/builder.ts: pattern -> regex.  A regex is a sequence of      *)
(* tokens: the anchors, the slash, the two groups, a plain character, or   *)
(* an escaped character (backslash + character).  No regex is None.        *)
(***************************************************************************)
RegexSpecial == { ".", "*", "+", "?", "^", "$", "{", "}", "(", ")", "|", "[", "]", "\\" }

\* escapeRegex that escapes nothing
escapeRegex_identity(value) == value

\* value.replace(/[.*+?^${}()|[\]\\]/g, "\\$&")
escapeRegex(value) ==
    [i \in 1..Len(value) |->
        IF value[i] \in RegexSpecial THEN "\\" \o value[i] ELSE value[i]]

\* regexPart whose catch-all stands for one segment only
regexPart_starOneSegment(segment) ==
    IF segment = <<"*">> THEN << "([^/]+)" >>
    ELSE IF startsWith(segment, <<":">>) THEN << "([^/]+)" >>
    ELSE escapeRegex(segment)

regexPart(segment) ==
    IF segment = <<"*">> THEN << "(.*)" >>
    ELSE IF startsWith(segment, <<":">>) THEN << "([^/]+)" >>
    ELSE escapeRegex(segment)

compilePatternToRegex(pattern) ==
    IF pattern = <<>> \/ pattern = Slash THEN None
    ELSE IF ~includes(pattern, ":") /\ ~includes(pattern, "*") THEN None
    ELSE LET segments == filterNonEmpty(split(pattern, "/"))
             parts == [i \in 1..Len(segments) |-> regexPart(segments[i])]
         IN << "^", "/" >> \o joinWith(parts, Slash) \o << "$" >>

\* JavaScript line terminators, which "." does not match
LineTerminators == { "\n", "\r" }

RECURSIVE regexMatchAt(_, _, _, _)
regexMatchAt(re, i, s, j) ==
    IF i > Len(re) THEN TRUE
    ELSE LET tok == re[i] IN
         CASE tok = "^" -> j = 1 /\ regexMatchAt(re, i + 1, s, j)
           [] tok = "$" -> j = Len(s) + 1 /\ regexMatchAt(re, i + 1, s, j)
           [] tok = "(.*)" ->
                \E k \in j..(Len(s) + 1) :
                    /\ \A m \in j..(k - 1) : s[m] \notin LineTerminators
                    /\ regexMatchAt(re, i + 1, s, k)
           [] tok = "([^/]+)" ->
                \E k \in (j + 1)..(Len(s) + 1) :
                    /\ \A m \in j..(k - 1) : s[m] # "/"
                    /\ regexMatchAt(re, i + 1, s, k)
           [] tok = "." ->
                j <= Len(s) /\ s[j] \notin LineTerminators /\ regexMatchAt(re, i + 1, s, j + 1)
           [] OTHER ->
                /\ j <= Len(s)
                /\ \/ tok = s[j]
                   \/ tok = "\\" \o s[j]
                /\ regexMatchAt(re, i + 1, s, j + 1)

\* new RegExp(re).test(s); every compiled regex starts with "^"
regexTest(re, s) == regexMatchAt(re, 1, s, 1)

(***************************************************************************)
(* cloudflare/builder.ts: hashing and naming of assets.                    *)
(***************************************************************************)
AsciiPrintable ==
    << " ", "!", "\"", "#", "$", "%", "&", "'", "(", ")", "*", "+", ",", "-", ".", "/",
       "0", "1", "2", "3", "4", "5", "6", "7", "8", "9", ":", ";", "<", "=", ">", "?",
       "@", "A", "B", "C", "D", "E", "F", "G", "H", "I", "J", "K", "L", "M", "N", "O",
       "P", "Q", "R", "S", "T", "U", "V", "W", "X", "Y", "Z", "[", "\\", "]", "^", "_",
       "grave", "a", "b", "c", "d", "e", "f", "g", "h", "i", "j", "k", "l", "m", "n", "o",
       "p", "q", "r", "s", "t", "u", "v", "w", "x", "y", "z", "{", "|", "}", "~" >>

\* UTF-8 byte of a printable ASCII character (the entry for code 96 is a name)
charCode(c) == 31 + (CHOOSE i \in 1..Len(AsciiPrintable) : AsciiPrintable[i] = c)

\* new TextEncoder().encode(value), for ASCII text
utf8Encode(value) == [i \in 1..Len(value) |-> charCode(value[i])]

HalfWord == 65536

\* a step that keeps 16 bits only: what leaves the low half is lost
hashStep_noCarry(h, byte) ==
    [hi |-> (h.hi * 31) % HalfWord, lo |-> (h.lo * 31 + byte) % HalfWord]

\* hash = (hash * 31 + byte) >>> 0 on a 32-bit value kept as two 16-bit halves
hashStep(h, byte) ==
    LET lo == h.lo * 31 + byte
        hi == h.hi * 31 + (lo \div HalfWord)
    IN [hi |-> hi % HalfWord, lo |-> lo % HalfWord]

RECURSIVE hashBytes(_, _, _)
hashBytes(data, i, h) ==
    IF i > Len(data) THEN h ELSE hashBytes(data, i + 1, hashStep(h, data[i]))

HexDigits == << "0", "1", "2", "3", "4", "5", "6", "7", "8", "9", "a", "b", "c", "d", "e", "f" >>

RECURSIVE hexOfNat(_)
hexOfNat(n) ==
    IF n < 16 THEN << HexDigits[n + 1] >>
    ELSE Append(hexOfNat(n \div 16), HexDigits[(n % 16) + 1])

\* four hexadecimal digits of a 16-bit half, leading zeros kept
hex4(n) ==
    << HexDigits[(n \div 4096) + 1], HexDigits[((n \div 256) % 16) + 1],
       HexDigits[((n \div 16) % 16) + 1], HexDigits[(n % 16) + 1] >>

\* hash.toString(16)
toHex(h) == IF h.hi = 0 THEN hexOfNat(h.lo) ELSE hexOfNat(h.hi) \o hex4(h.lo)

hashString(value) == toHex(hashBytes(utf8Encode(value), 1, [hi |-> 0, lo |-> 0]))

isAlnum(c) ==
    LET n == charCode(c) IN
    \/ n \in 48..57
    \/ n \in 65..90
    \/ n \in 97..122

RECURSIVE dashRuns(_, _, _)
\* .replace(/[^a-zA-Z0-9]+/g, "-")
dashRuns(s, i, inRun) ==
    IF i > Len(s) THEN <<>>
    ELSE IF isAlnum(s[i]) THEN << s[i] >> \o dashRuns(s, i + 1, FALSE)
    ELSE IF inRun THEN dashRuns(s, i + 1, TRUE)
    ELSE << "-" >> \o dashRuns(s, i + 1, TRUE)

\* .replace(/^-+|-+$/g, "") after the runs were collapsed to single dashes
trimDashes(s) ==
    LET a == IF Len(s) > 0 /\ s[1] = "-" THEN Tail(s) ELSE s
    IN IF Len(a) > 0 /\ a[Len(a)] = "-" THEN dropLast(a, 1) ELSE a

StrBundle == <<"b", "u", "n", "d", "l", "e">>

slugify(value) ==
    LET backslashed == backslashToSlash(value)
        slug == trimDashes(dashRuns(backslashed, 1, FALSE))
    IN IF slug = <<>> THEN StrBundle ELSE slug

sanitizeAssetPrefix(prefix) ==
    LET p == IF ~startsWith(prefix, Slash) THEN Slash \o prefix ELSE prefix
    IN IF endsWith(p, Slash) THEN dropLast(p, 1) ELSE p

\* resolveOutputDirectory that takes the directory as given
resolveOutputDirectory_asGiven(dir, cwd) == dir

resolveOutputDirectory(dir, cwd) == IF isAbsolute(dir) THEN dir ELSE resolve(cwd, dir)

CssExts == { <<".", "c", "s", "s">>, <<".", "c", "c", "s", "s">>, <<".", "m", "c", "s", "s">> }

\* s.replace(/\.[cm]?css$/, "")
stripCssExt(s) ==
    IF \E e \in CssExts : endsWith(s, e)
    THEN LET e == CHOOSE e \in CssExts : endsWith(s, e) IN dropLast(s, Len(e))
    ELSE s

\* s.replace(/\.[tj]sx?$/, "")
stripBundleExt(s) == stripScriptExt(s)

(***************************************************************************)
(* Finite maps (JavaScript Map / files on disk).                           *)
(***************************************************************************)
EmptyMap == [k \in {} |-> None]
MapPut(f, k, v) == [x \in (DOMAIN f) \cup {k} |-> IF x = k THEN v ELSE f[x]]
MapDel(f, k) == [x \in (DOMAIN f) \ {k} |-> f[x]]

(***************************************************************************)
(* HTML.  A document is a sequence of tokens; a token is a piece of text   *)
(* or one tag, and is the unit String.prototype.replace works on:          *)
(*   script : a script element with a src (v), module = it has type=module *)
(*   link   : a link rel=stylesheet element with an href (v)               *)
(*   body   : an element carrying data-buna-route (v)                      *)
(*   text   : anything else (v)                                            *)
(* asset = the tag carries data-buna-asset=true.                           *)
(***************************************************************************)
Tok(t, v, module, asset) == [t |-> t, v |-> v, module |-> module, asset |-> asset]
TextTok(v) == Tok("text", v, FALSE, FALSE)
ScriptTok(src, module) == Tok("script", src, module, FALSE)
LinkTok(href) == Tok("link", href, FALSE, FALSE)
BodyTok(route) == Tok("body", route, FALSE, FALSE)

\* the longest prefix of s without the character c
takeUntil(s, c) ==
    IF \E i \in 1..Len(s) : s[i] = c
    THEN SubSeq(s, 1, (CHOOSE i \in 1..Len(s) : s[i] = c /\ \A j \in 1..(i - 1) : s[j] # c) - 1)
    ELSE s

\* html.match(/data-buna-route=.([^.]+)./), the dots standing for double
\* quotes: the value runs up to the first double quote and is not empty
extractRoutePattern(html) ==
    LET hits == SelectSeq(html, LAMBDA tok : tok.t = "body" /\ takeUntil(tok.v, "\"") # <<>>)
    IN IF Len(hits) = 0 THEN None ELSE Some(takeUntil(hits[1].v, "\""))

\* /<script\b[^>]*src=["']([^"']+)["'][^>]*><\/script>/gi
extractScriptTags(html) ==
    LET hits == SelectSeq(html, LAMBDA tok : tok.t = "script" /\ tok.v # <<>>)
    IN [i \in 1..Len(hits) |-> [original |-> hits[i], src |-> hits[i].v, isModule |-> hits[i].module]]

\* /<link\b[^>]*rel=["']stylesheet["'][^>]*>/gi, then /href=["']([^"']+)["']/i
extractStylesheetLinks(html) ==
    LET hits == SelectSeq(html, LAMBDA tok : tok.t = "link" /\ tok.v # <<>>)
    IN [i \in 1..Len(hits) |-> [original |-> hits[i], href |-> hits[i].v]]

isRelativeAsset(value) ==
    IF value = <<>> THEN FALSE
    ELSE startsWith(value, <<".", "/">>) \/ startsWith(value, <<".", ".", "/">>)

\* output.replace(original, newTag): the first occurrence only
\* a replacement that acts once for each distinct tag of a page: a second
\* occurrence of a tag already replaced is left as it was
replaceFirst_oncePerTag(output, original, newTag) ==
    IF \E i \in 1..Len(output) : output[i] = newTag THEN output
    ELSE IF \E i \in 1..Len(output) : output[i] = original
    THEN LET first == CHOOSE i \in 1..Len(output) :
                        /\ output[i] = original
                        /\ \A j \in 1..(i - 1) : output[j] # original
         IN [output EXCEPT ![first] = newTag]
    ELSE output

replaceFirst(output, original, newTag) ==
    IF \E i \in 1..Len(output) : output[i] = original
    THEN LET first == CHOOSE i \in 1..Len(output) :
                        /\ output[i] = original
                        /\ \A j \in 1..(i - 1) : output[j] # original
         IN [output EXCEPT ![first] = newTag]
    ELSE output

scriptAssetTag(urlPath) == Tok("script", urlPath, TRUE, TRUE)
linkAssetTag(urlPath) == Tok("link", urlPath, FALSE, TRUE)

(***************************************************************************)
(* The project the model builds.                                           *)
(***************************************************************************)
projectRoot == <<"/", "p">>
ConfigRoutesDir == <<"/", "p", "/", "r">>
ConfigOutDir == <<"/", "p", "/", "o">>
StrPages == <<"p", "a", "g", "e", "s">>
StrWorkerJs == <<"w", "o", "r", "k", "e", "r", ".", "j", "s">>
StrCloudflareWorker == <<"c", "l", "o", "u", "d", "f", "l", "a", "r", "e", "-", "w", "o", "r", "k", "e", "r">>
StrTailwindEntry == <<"_", "_", "t", "a", "i", "l", "w", "i", "n", "d", "-", "e", "n", "t", "r", "y", ".", "c", "s", "s">>
StrRoutesGenerated == <<"r", "o", "u", "t", "e", "s", ".", "g", "e", "n", "e", "r", "a", "t", "e", "d", ".", "t", "s">>
StrTailwindcss == <<"t", "a", "i", "l", "w", "i", "n", "d", "c", "s", "s">>
StrTailwind == <<"t", "a", "i", "l", "w", "i", "n", "d">>

DEFAULT_ASSET_PREFIX == <<"/", "_", "b", "u", "n", "a", "/", "a", "s", "s", "e", "t", "s">>
DEFAULT_HTML_CACHE == "public, max-age=60"
DEFAULT_STATIC_CACHE == "public, max-age=31536000, immutable"
JsContentType == "text/javascript; charset=utf-8"
CssContentType == "text/css; charset=utf-8"
HtmlContentType == "text/html; charset=utf-8"

PagesDir == join(ConfigOutDir, StrPages)

\* the stylesheets of the project: path -> contents (a path outside the domain does not exist)
CssFiles ==
    LET dir == PagesDir IN
    MapPut(MapPut(EmptyMap,
        join(dir, <<"s", "/", "t", ".", "c", "s", "s">>), <<"A", "a">>),
        join(dir, <<"s", "-", "t", ".", "c", "s", "s">>), <<"B", "B">>)

\* contents of a route file: its path relative to routesDir
scriptSource(entryPath) == relative(ConfigRoutesDir, entryPath)

(***************************************************************************)
(* Bun.build({ entrypoints: [entryPath] }): the bundler of the host.       *)
(* It fails for an entry that does not exist or that env marks as broken;  *)
(* its artifact carries the bundled text and a hash of that text.          *)
(***************************************************************************)
RECURSIVE bunHash(_)
\* artifact.hash: a content hash, modelled as an injective encoding of the text
bunHash(text) ==
    IF Len(text) = 0 THEN <<>>
    ELSE LET n == charCode(text[1]) IN
         << HexDigits[(n \div 16) + 1], HexDigits[(n % 16) + 1] >> \o bunHash(Tail(text))

BunBuild(entryPath) ==
    IF entryPath \notin routeFiles \/ entryPath \in env.broken
    THEN [success |-> FALSE, outputs |-> <<>>]
    ELSE IF entryPath \in env.empty
    THEN [success |-> TRUE, outputs |-> <<>>]
    ELSE LET text == <<";">> \o scriptSource(entryPath)
         IN [success |-> TRUE,
             outputs |-> << [kind |-> "entry-point", text |-> text, hash |-> bunHash(text)] >>]

TailwindCssText == <<".", "t", "w", "{", "}">>

BunBuildTailwind ==
    IF env.tailwind = "fails" THEN [success |-> FALSE, outputs |-> <<>>]
    ELSE IF env.tailwind = "empty" THEN [success |-> TRUE, outputs |-> <<>>]
    ELSE [success |-> TRUE,
          outputs |-> << [kind |-> "entry-point", text |-> TailwindCssText, hash |-> <<"t", "w", "1">>] >>]

(***************************************************************************)
(* cloudflare/builder.ts: compiling the assets a page references.          *)
(* The functions thread a record st through the awaits of one page:        *)
(*   ctx    the TransformContext                                           *)
(*   output the page being rewritten                                       *)
(*   disk   the files on disk                                              *)
(*   log    compiled: the entries handed to the bundler / read as CSS;     *)
(*          rewrites: the tags replaced, each with its asset;              *)
(*          error: the Error that ended the build                          *)
(*   err    Some(message) once an Error was thrown                         *)
(*   ret    the value returned by the last compile call                    *)
(***************************************************************************)
File(kind, data) == [kind |-> kind, data |-> data]

Asset(entryPath, urlPath, contents, contentType) ==
    [entryPath |-> entryPath, urlPath |-> urlPath, contents |-> contents, contentType |-> contentType]

assetUrl(c, filename) == c.assetsBasePath \o Slash \o filename

throw(st, message) == [st EXCEPT !.err = Some(message), !.ret = None]

\* ctx.assetCache.set(entryPath, asset); ctx.assets.push(asset); return asset
cacheAsset(st, entryPath, asset) ==
    [st EXCEPT !.ctx.assetCache = MapPut(@, entryPath, asset),
               !.ctx.assets = Append(@, asset),
               !.ret = Some(asset)]

\* lines 281-307: the asset of what the bundler returned for the entry
scriptAssetOf(entryPath, st, built) ==
    IF ~built.success THEN throw(st, "Falha ao compilar")
    ELSE IF Len(built.outputs) = 0 THEN throw(st, "Bun.build nao retornou artefatos")
    ELSE cacheAsset(st, entryPath,
            Asset(entryPath,
                  assetUrl(st.ctx,
                           slugify(stripBundleExt(backslashToSlash(relative(st.ctx.projectRoot, entryPath))))
                             \o <<"-">> \o built.outputs[1].hash \o <<".", "j", "s">>),
                  built.outputs[1].text, JsContentType))

\* compileScriptAsset that never looks into the asset cache
compileScriptAsset_noCache(entryPath, st) ==
    scriptAssetOf(entryPath, [st EXCEPT !.log.compiled = Append(@, entryPath)], BunBuild(entryPath))

compileScriptAsset(entryPath, st) ==
    IF entryPath \in DOMAIN st.ctx.assetCache
    THEN [st EXCEPT !.ret = Some(st.ctx.assetCache[entryPath])]
    ELSE scriptAssetOf(entryPath, [st EXCEPT !.log.compiled = Append(@, entryPath)], BunBuild(entryPath))

\* line 321: the slug of the path without extension, the hash of the contents
cssFilename(root, entryPath, contents) ==
    slugify(stripCssExt(backslashToSlash(relative(root, entryPath))))
      \o <<"-">> \o hashString(contents) \o <<".", "c", "s", "s">>

compileCssAsset(entryPath, st) ==
    IF entryPath \in DOMAIN st.ctx.assetCache
    THEN [st EXCEPT !.ret = Some(st.ctx.assetCache[entryPath])]
    ELSE IF entryPath \notin DOMAIN CssFiles THEN throw(st, "Arquivo CSS nao encontrado")
    ELSE cacheAsset([st EXCEPT !.log.compiled = Append(@, entryPath)], entryPath,
            Asset(entryPath,
                  assetUrl(st.ctx, cssFilename(st.ctx.projectRoot, entryPath, CssFiles[entryPath])),
                  CssFiles[entryPath], CssContentType))

\* import("bun-plugin-tailwind"), then the copy under node_modules of the project
loadTailwindPluginFromProject == IF env.tailwind = "missing" THEN "null" ELSE "plugin"

ensureTailwindPlugin(st) ==
    IF st.ctx.tailwindPlugin # "undefined" THEN st
    ELSE [st EXCEPT !.ctx.tailwindPlugin = loadTailwindPluginFromProject]

TailwindEntryPath == join(ConfigOutDir, StrTailwindEntry)

\* lines 383-388: ctx.tailwindAsset = asset; ctx.assets.push(asset); rm(entryPath)
cacheTailwindAsset(st, asset) ==
    [st EXCEPT !.ctx.tailwindAsset = Some(asset),
               !.ctx.assets = Append(@, asset),
               !.disk = MapDel(@, TailwindEntryPath),
               !.ret = Some(asset)]

\* lines 361-388: the asset of what the bundler returned for the Tailwind entry
tailwindAssetOf(st, built) ==
    IF ~built.success THEN throw(st, "Falha ao compilar tailwindcss")
    ELSE IF Len(built.outputs) = 0 THEN throw(st, "Falha ao gerar CSS do Tailwind")
    ELSE cacheTailwindAsset(st,
            Asset(StrTailwindcss,
                  assetUrl(st.ctx, StrTailwind \o <<"-">> \o built.outputs[1].hash \o <<".", "c", "s", "s">>),
                  built.outputs[1].text, CssContentType))

\* compileTailwindWith that throws when the plugin cannot be loaded
compileTailwindWith_pluginRequired(st) ==
    IF st.ctx.tailwindPlugin = "null" THEN throw(st, "Falha ao compilar tailwindcss")
    ELSE tailwindAssetOf([st EXCEPT !.disk = MapPut(@, TailwindEntryPath, File("css", "@import tailwindcss")),
                                    !.log.compiled = Append(@, StrTailwindcss)],
                         BunBuildTailwind)

\* lines 343-388: compileTailwindAsset once ensureTailwindPlugin has answered
compileTailwindWith(st) ==
    IF st.ctx.tailwindPlugin = "null" THEN [st EXCEPT !.ret = None]
    ELSE tailwindAssetOf([st EXCEPT !.disk = MapPut(@, TailwindEntryPath, File("css", "@import tailwindcss")),
                                    !.log.compiled = Append(@, StrTailwindcss)],
                         BunBuildTailwind)

compileTailwindAsset(st) ==
    IF IsSome(st.ctx.tailwindAsset) THEN [st EXCEPT !.ret = st.ctx.tailwindAsset]
    ELSE compileTailwindWith(ensureTailwindPlugin(st))

\* const newTag = ...; output = output.replace(original, newTag), for the
\* asset a compile call returned; an Error or a null asset leaves the page
rewrite(st, filePath, original, newTag) ==
    IF IsSome(st.err) \/ ~IsSome(st.ret) THEN st
    ELSE [st EXCEPT !.output = replaceFirst(@, original, newTag),
                    !.log.rewrites = Append(@, [file |-> filePath, original |-> original,
                                                tag |-> newTag, asset |-> Get(st.ret)])]

\* lines 200-203: the script tag is replaced by one naming the asset
rewriteScript(filePath, script, compiled) ==
    rewrite(compiled, filePath, script.original,
            IF IsSome(compiled.ret) THEN scriptAssetTag(Get(compiled.ret).urlPath) ELSE None)

\* lines 208-213 and 221-224: the link tag is replaced by one naming the asset
rewriteSheet(filePath, sheet, compiled) ==
    rewrite(compiled, filePath, sheet.original,
            IF IsSome(compiled.ret) THEN linkAssetTag(Get(compiled.ret).urlPath) ELSE None)

RECURSIVE scriptLoop(_, _, _, _)
scriptLoop(tags, i, filePath, st) ==
    IF i > Len(tags) \/ IsSome(st.err) THEN st
    ELSE IF ~tags[i].isModule \/ ~isRelativeAsset(tags[i].src)
    THEN scriptLoop(tags, i + 1, filePath, st)
    ELSE scriptLoop(tags, i + 1, filePath,
                    rewriteScript(filePath, tags[i],
                                  compileScriptAsset(resolve(dirname(filePath), tags[i].src), st)))

RECURSIVE sheetLoop(_, _, _, _)
sheetLoop(tags, i, filePath, st) ==
    IF i > Len(tags) \/ IsSome(st.err) THEN st
    ELSE IF tags[i].href = StrTailwindcss
    THEN sheetLoop(tags, i + 1, filePath, rewriteSheet(filePath, tags[i], compileTailwindAsset(st)))
    ELSE IF ~isRelativeAsset(tags[i].href) THEN sheetLoop(tags, i + 1, filePath, st)
    ELSE sheetLoop(tags, i + 1, filePath,
                   rewriteSheet(filePath, tags[i],
                                compileCssAsset(resolve(dirname(filePath), tags[i].href), st)))

transformHtmlFile(filePath, html, st) ==
    sheetLoop(extractStylesheetLinks(html), 1, filePath,
              scriptLoop(extractScriptTags(html), 1, filePath, [st EXCEPT !.output = html]))

(***************************************************************************)
(* cloudflare/builder.ts: the emitted worker.                              *)
(***************************************************************************)
RECURSIVE newMap(_, _)
\* new Map(entries): a later entry with the same key replaces the earlier one
newMap(entries, m) ==
    IF Len(entries) = 0 THEN m
    ELSE newMap(Tail(entries), MapPut(m, entries[1][1], entries[1][2]))

createWorkerSource(params) ==
    [HTML_ROUTES |-> [i \in 1..Len(params.routes) |->
                        [pattern |-> params.routes[i].pattern,
                         html |-> params.routes[i].html,
                         matcher |-> params.routes[i].regex]],
     STATIC_ASSETS |-> newMap([i \in 1..Len(params.assets) |->
                                  << params.assets[i].urlPath,
                                     [body |-> params.assets[i].contents,
                                      contentType |-> params.assets[i].contentType] >>],
                              EmptyMap),
     HTML_HEADERS |-> [contentType |-> HtmlContentType, cacheControl |-> params.htmlCacheControl],
     ASSET_CACHE |-> params.assetCacheControl]

\* normalizePath that leaves the trailing slash in place
normalizePath_keepsSlash(pathname) == pathname

normalizePath(pathname) ==
    IF Len(pathname) > 1 /\ endsWith(pathname, Slash) THEN dropLast(pathname, 1) ELSE pathname

RECURSIVE matchHtmlRouteFrom_regexOnly(_, _, _)
\* matchHtmlRoute without the comparison of the pattern with the path
matchHtmlRouteFrom_regexOnly(table, i, pathname) ==
    IF i > Len(table) THEN None
    ELSE LET route == table[i] IN
         IF route.matcher # None /\ regexTest(route.matcher, pathname) THEN Some(route)
         ELSE matchHtmlRouteFrom_regexOnly(table, i + 1, pathname)

RECURSIVE matchHtmlRouteFrom(_, _, _)
matchHtmlRouteFrom(table, i, pathname) ==
    IF i > Len(table) THEN None
    ELSE LET route == table[i] IN
         IF route.pattern = pathname THEN Some(route)
         ELSE IF route.matcher # None /\ regexTest(route.matcher, pathname) THEN Some(route)
         ELSE matchHtmlRouteFrom(table, i + 1, pathname)

matchHtmlRoute(worker, pathname) == matchHtmlRouteFrom(worker.HTML_ROUTES, 1, pathname)

Response(status, kind, body, contentType, cacheControl) ==
    [status |-> status, kind |-> kind, body |-> body,
     contentType |-> contentType, cacheControl |-> cacheControl]

serveAsset(worker, pathname) ==
    IF pathname \notin DOMAIN worker.STATIC_ASSETS THEN None
    ELSE LET asset == worker.STATIC_ASSETS[pathname] IN
         Some(Response(200, "asset", asset.body, asset.contentType, worker.ASSET_CACHE))

\* fetch that looks the path up in the route table first
fetch_routesFirst(worker, pathname) ==
    LET normalized == normalizePath(pathname)
        route == matchHtmlRoute(worker, normalized)
    IN IF IsSome(route)
       THEN Response(200, "html", Get(route).html,
                     worker.HTML_HEADERS.contentType, worker.HTML_HEADERS.cacheControl)
       ELSE LET assetResponse == serveAsset(worker, normalized) IN
            IF IsSome(assetResponse) THEN Get(assetResponse)
            ELSE Response(404, "text", "Not Found", "text/plain;charset=UTF-8", "")

\* export default { fetch(request) }, url.pathname given
fetch(worker, pathname) ==
    LET normalized == normalizePath(pathname)
        assetResponse == serveAsset(worker, normalized)
    IN IF IsSome(assetResponse) THEN Get(assetResponse)
       ELSE LET route == matchHtmlRoute(worker, normalized) IN
            IF IsSome(route)
            THEN Response(200, "html", Get(route).html,
                          worker.HTML_HEADERS.contentType, worker.HTML_HEADERS.cacheControl)
            ELSE Response(404, "text", "Not Found", "text/plain;charset=UTF-8", "")

(***************************************************************************)
(* Directory walks.  readdir returns the entries of a directory in an      *)
(* order the file system chooses; a walk is the set of the orders it may   *)
(* produce (the files of a subdirectory stay together).                    *)
(***************************************************************************)
RECURSIVE Perms(_)
Perms(S) == IF S = {} THEN { <<>> }
            ELSE UNION { { <<x>> \o p : p \in Perms(S \ {x}) } : x \in S }

RECURSIVE walk(_, _, _)
RECURSIVE walkEntries(_, _, _, _)

\* the orders in which the files below dir whose name ends with one of exts are listed
walk(dir, paths, exts) ==
    LET prefix == dir \o Slash
        below == { p \in paths : startsWith(p, prefix) }
        names == { split(sliceFrom(p, Len(prefix)), "/")[1] : p \in below }
    IN UNION { walkEntries(dir, order, paths, exts) : order \in Perms(names) }

walkEntries(dir, order, paths, exts) ==
    IF Len(order) = 0 THEN { <<>> }
    ELSE LET full == join(dir, order[1])
             here == IF full \in paths
                     THEN IF \E e \in exts : endsWith(order[1], e) THEN { <<full>> } ELSE { <<>> }
                     ELSE walk(full, paths, exts)
         IN { a \o b : a \in here, b \in walkEntries(dir, Tail(order), paths, exts) }

collectHtmlFiles(dir) == walk(dir, DOMAIN disk, { HtmlExt })

getFilesRecursively(dir) == walk(dir, routeFiles, ScriptExts)

(***************************************************************************)
(* The route files the project may hold.                                   *)
(***************************************************************************)
RouteFile(rel) == join(ConfigRoutesDir, rel)

RouteA == RouteFile(<<"a", ".", "t", "s", "x">>)
RouteId == RouteFile(<<"[", "i", "d", "]", ".", "t", "s">>)
RouteCatchAll == RouteFile(<<"[", ".", ".", ".", "s", "]", ".", "j", "s", "x">>)
RouteAIndex == RouteFile(<<"a", "/", "i", "n", "d", "e", "x", ".", "j", "s">>)

RouteFilePool == { RouteA, RouteId, RouteCatchAll, RouteAIndex }

(***************************************************************************)
(* dev/generate-routes.ts: generateRoutes.                                 *)
(***************************************************************************)
generatedHtml(routePath, scriptSrc) ==
    << TextTok(routePath), LinkTok(StrTailwindcss), BodyTok(routePath),
       TextTok(<<"r", "o", "o", "t">>), ScriptTok(scriptSrc, TRUE) >>

RoutesGeneratedPath == join(ConfigOutDir, StrRoutesGenerated)

\* lines 85-102: the page of a route file, htmlRelPath its name below pagesDir
routeEntryAt(file, htmlRelPath) ==
    [routePath |-> filePathToRoute(file, ConfigRoutesDir),
     htmlRelPath |-> htmlRelPath,
     htmlDiskPath |-> join(PagesDir, htmlRelPath),
     htmlContent |-> generatedHtml(filePathToRoute(file, ConfigRoutesDir),
                                   backslashToSlash(relative(dirname(join(PagesDir, htmlRelPath)), file)))]

\* lines 78-102 of the loop body: what generateRoutes derives from one route file
routeEntry(file) ==
    routeEntryAt(file, stripScriptExt(backslashToSlash(relative(ConfigRoutesDir, file))) \o HtmlExt)

\* routeEntry of every route file of the pool, computed once
RouteEntries == [f \in RouteFilePool |-> routeEntry(f)]

RECURSIVE generateLoop(_, _, _, _)

\* lines 104-111: the page is written and the route added to the routes object
generateStep(files, i, d, ts, e) ==
    generateLoop(files, i + 1,
                 MapPut(d, e.htmlDiskPath, File("html", e.htmlContent)),
                 MapPut(ts, e.routePath, e.htmlRelPath))

\* the for loop over the route files: d is the disk, ts the routes object so far
generateLoop(files, i, d, ts) ==
    IF i > Len(files) THEN [disk |-> d, ts |-> ts]
    ELSE generateStep(files, i, d, ts, RouteEntries[files[i]])

\* line 121: routes.generated.ts is written
writeRoutesFile(done) == MapPut(done.disk, RoutesGeneratedPath, File("ts", done.ts))

\* the disk after generateRoutes listed the route files in the order files
generateRoutes(files) == writeRoutesFile(generateLoop(files, 1, disk, EmptyMap))

(***************************************************************************)
(* Bounds and the inputs the model draws from.                             *)
(***************************************************************************)
MaxEdits == 2        \* edits of the project (route files, pages) in one behaviour

\* the route files under routesDir at the start
InitialProjects == { {RouteA}, {RouteCatchAll} }

\* pages written by hand into <outDir>/pages
HandPageX ==
    [path |-> join(PagesDir, <<"x", ".", "h", "t", "m", "l">>),
     html |-> << LinkTok(<<".", "/", "s", "/", "t", ".", "c", "s", "s">>),
                 LinkTok(StrTailwindcss),
                 ScriptTok(<<".", "/", "n", ".", "j", "s">>, FALSE),
                 ScriptTok(<<".", ".", "/", ".", ".", "/", "r", "/", "a", ".", "t", "s", "x">>, TRUE),
                 LinkTok(<<".", "/", "s", "/", "t", ".", "c", "s", "s">>),
                 LinkTok(<<".", "/", "s", "-", "t", ".", "c", "s", "s">>),
                 LinkTok(<<"h", ":", "/", "/", "c", ".", "c", "s", "s">>) >>]

HandPageZ ==
    [path |-> join(PagesDir, <<"z", "/", "i", "n", "d", "e", "x", ".", "h", "t", "m", "l">>),
     html |-> << BodyTok(Slash),
                 LinkTok(<<".", "/", "m", ".", "c", "s", "s">>) >>]

HandPages == { HandPageX, HandPageZ }

Env(tailwind, broken, empty) == [tailwind |-> tailwind, broken |-> broken, empty |-> empty]

Envs == { Env("ok", {}, {}), Env("missing", {RouteId}, {}), Env("fails", {}, {RouteA}) }

BuildOption(outDir, assetsBasePath) ==
    [outDir |-> outDir, assetsBasePath |-> assetsBasePath,
     htmlCacheControl |-> DEFAULT_HTML_CACHE, assetCacheControl |-> DEFAULT_STATIC_CACHE]

BuildOptions ==
    { BuildOption(None, DEFAULT_ASSET_PREFIX),
      BuildOption(Some(<<"w">>), <<"x", "/">>),
      BuildOption(Some(<<"/", "q">>), DEFAULT_ASSET_PREFIX) }

RequestPaths ==
    { Slash, <<"/", "a">>, <<"/", "a", "/">>, <<"/", "a", "/", "/">>, <<"/", "x">>,
      <<"/", "a", "/", "b">> }

resolvedOutDir(o) ==
    resolveOutputDirectory(IF IsSome(o.outDir) THEN Get(o.outDir)
                           ELSE join(ConfigOutDir, StrCloudflareWorker),
                           projectRoot)

WorkerPath(o) == join(resolvedOutDir(o), StrWorkerJs)

\* the worker.js an earlier build of an earlier state of the project left behind
EarlierWorker ==
    createWorkerSource([routes |-> << [pattern |-> <<"/", "o", "l", "d">>,
                                       html |-> << BodyTok(<<"/", "o", "l", "d">>) >>,
                                       regex |-> None] >>,
                        assets |-> <<>>,
                        htmlCacheControl |-> DEFAULT_HTML_CACHE,
                        assetCacheControl |-> DEFAULT_STATIC_CACHE])

EmptyCtx ==
    [projectRoot |-> projectRoot, assetsBasePath |-> DEFAULT_ASSET_PREFIX,
     assetCache |-> EmptyMap, assets |-> <<>>,
     tailwindAsset |-> None, tailwindPlugin |-> "undefined"]

EmptyLog == [compiled |-> <<>>, rewrites |-> <<>>, error |-> None]

\* no command of the CLI was started
IdleCli ==
    [command |-> "none", pos |-> "idle", args |-> <<>>, rest |-> <<>>,
     runtime |-> None, root |-> None, error |-> None]

IdleBuild ==
    /\ pc = "idle"
    /\ opts = None
    /\ htmlFiles = <<>>
    /\ idx = 1
    /\ ctx = EmptyCtx
    /\ routes = <<>>
    /\ pageLog = EmptyLog
    /\ snapshot = EmptyMap
    /\ result = None
    /\ response = None

Init ==
    /\ routeFiles \in InitialProjects
    /\ disk = MapPut(EmptyMap, WorkerPath(BuildOption(None, DEFAULT_ASSET_PREFIX)),
                     File("worker", EarlierWorker))
    /\ env \in Envs
    /\ calls = [edits |-> 0, codegenDone |-> FALSE]
    /\ IdleBuild
    /\ fnIn = None
    /\ fnOut = None
    /\ cli = IdleCli

(***************************************************************************)
(* The project changes between runs of the tools.                          *)
(***************************************************************************)
AddRouteFile(f) ==
    /\ pc = "idle"
    /\ calls.edits < MaxEdits
    /\ f \notin routeFiles
    /\ routeFiles' = routeFiles \cup {f}
    /\ calls' = [edits |-> calls.edits + 1, codegenDone |-> FALSE]
    /\ UNCHANGED <<disk, env, buildVars, response, fnIn, fnOut, cli>>

RemoveRouteFile(f) ==
    /\ pc = "idle"
    /\ calls.edits < MaxEdits
    /\ f \in routeFiles
    /\ routeFiles' = routeFiles \ {f}
    /\ calls' = [edits |-> calls.edits + 1, codegenDone |-> FALSE]
    /\ UNCHANGED <<disk, env, buildVars, response, fnIn, fnOut, cli>>

WritePage(h) ==
    /\ pc = "idle"
    /\ calls.edits < MaxEdits
    /\ h.path \notin DOMAIN disk
    /\ disk' = MapPut(disk, h.path, File("html", h.html))
    /\ calls' = [edits |-> calls.edits + 1, codegenDone |-> FALSE]
    /\ UNCHANGED <<routeFiles, env, buildVars, response, fnIn, fnOut, cli>>

\* buna codegen
Codegen ==
    /\ pc = "idle"
    /\ \E files \in getFilesRecursively(ConfigRoutesDir) :
          disk' = generateRoutes(files)
    /\ calls' = [calls EXCEPT !.codegenDone = TRUE]
    /\ UNCHANGED <<routeFiles, env, buildVars, response, fnIn, fnOut, cli>>

(***************************************************************************)
(* buildCloudflareWorker, one action per stretch between its page reads.   *)
(***************************************************************************)
\* BuildStart that writes an empty worker.js before the pages are read
BuildStart_emitsFirst(o) ==
    /\ pc = "idle"
    /\ opts' = Some(o)
    /\ snapshot' = disk
    /\ disk' = MapPut(disk, WorkerPath(o),
                      File("worker", createWorkerSource(
                          [routes |-> <<>>, assets |-> <<>>,
                           htmlCacheControl |-> o.htmlCacheControl,
                           assetCacheControl |-> o.assetCacheControl])))
    /\ \E files \in collectHtmlFiles(PagesDir) :
          /\ htmlFiles' = files
          /\ pc' = IF Len(files) = 0 THEN "failed" ELSE "pages"
          /\ pageLog' = IF Len(files) = 0
                        THEN [EmptyLog EXCEPT !.error = Some("Nenhuma pagina .html encontrada")]
                        ELSE EmptyLog
    /\ idx' = 1
    /\ ctx' = [EmptyCtx EXCEPT !.assetsBasePath = sanitizeAssetPrefix(o.assetsBasePath)]
    /\ routes' = <<>>
    /\ result' = None
    /\ response' = None
    /\ UNCHANGED <<routeFiles, env, calls, fnIn, fnOut, cli>>

\* lines 70-99: options, output directory, page collection, context
BuildStart(o) ==
    /\ pc = "idle"
    /\ opts' = Some(o)
    /\ snapshot' = disk
    /\ \E files \in collectHtmlFiles(PagesDir) :
          /\ htmlFiles' = files
          /\ pc' = IF Len(files) = 0 THEN "failed" ELSE "pages"
          /\ pageLog' = IF Len(files) = 0
                        THEN [EmptyLog EXCEPT !.error = Some("Nenhuma pagina .html encontrada")]
                        ELSE EmptyLog
    /\ idx' = 1
    /\ ctx' = [EmptyCtx EXCEPT !.assetsBasePath = sanitizeAssetPrefix(o.assetsBasePath)]
    /\ routes' = <<>>
    /\ result' = None
    /\ response' = None
    /\ UNCHANGED <<routeFiles, disk, env, calls, fnIn, fnOut, cli>>

\* lines 105-116: the route of the page is pushed, or the Error leaves the loop
pushRoute(pattern, st) ==
    IF pattern = <<>>
    THEN /\ pc' = "failed"
         /\ pageLog' = [pageLog EXCEPT !.error = Some("Nao foi possivel determinar o caminho da rota")]
         /\ UNCHANGED <<disk, ctx, routes, idx>>
    ELSE /\ disk' = st.disk
         /\ ctx' = st.ctx
         /\ pageLog' = [st.log EXCEPT !.error = st.err]
         /\ IF IsSome(st.err)
            THEN /\ pc' = "failed"
                 /\ UNCHANGED <<routes, idx>>
            ELSE /\ routes' = Append(routes, [pattern |-> pattern, html |-> st.output,
                                              regex |-> compilePatternToRegex(pattern)])
                 /\ idx' = idx + 1
                 /\ pc' = "pages"

\* line 105: extractRoutePattern(html) ?? inferRouteFromFile(file, pagesDir)
patternOf(extracted, file) ==
    IF IsSome(extracted) THEN Get(extracted) ELSE inferRouteFromFile(file, PagesDir)

\* lines 103-117: one iteration of the loop over htmlFiles
BuildPage ==
    /\ pc = "pages"
    /\ idx <= Len(htmlFiles)
    /\ LET file == htmlFiles[idx]
           html == disk[file].data
       IN pushRoute(patternOf(extractRoutePattern(html), file),
                    transformHtmlFile(file, html,
                        [ctx |-> ctx, output |-> html, disk |-> disk, log |-> pageLog,
                         err |-> None, ret |-> None]))
    /\ UNCHANGED <<routeFiles, env, calls, opts, htmlFiles, snapshot, result, response, fnIn, fnOut, cli>>

\* lines 119-129: the worker source is written and the result returned
BuildEmit ==
    /\ pc = "pages"
    /\ idx > Len(htmlFiles)
    /\ LET workerSource == createWorkerSource(
                              [routes |-> routes, assets |-> ctx.assets,
                               htmlCacheControl |-> Get(opts).htmlCacheControl,
                               assetCacheControl |-> Get(opts).assetCacheControl])
           workerPath == WorkerPath(Get(opts))
       IN /\ disk' = MapPut(disk, workerPath, File("worker", workerSource))
          /\ result' = Some([workerPath |-> workerPath, assets |-> Len(ctx.assets),
                             routes |-> Len(routes)])
    /\ pc' = "done"
    /\ UNCHANGED <<routeFiles, env, calls, opts, htmlFiles, idx, ctx, routes, pageLog,
                   snapshot, response, fnIn, fnOut, cli>>

\* the paths requested from the worker: fixed ones, and every asset URL
FetchPaths == RequestPaths \cup { ctx.assets[i].urlPath : i \in 1..Len(ctx.assets) }

\* a request reaches the worker the last build emitted
Fetch(pathname) ==
    /\ pc = "done"
    /\ LET worker == disk[Get(result).workerPath].data
       IN response' = Some([pathname |-> pathname, response |-> fetch(worker, pathname)])
    /\ UNCHANGED <<routeFiles, disk, env, calls, buildVars, fnIn, fnOut, cli>>

Next ==
    \/ \E f \in RouteFilePool : AddRouteFile(f)
    \/ \E f \in RouteFilePool : RemoveRouteFile(f)
    \/ \E h \in HandPages : WritePage(h)
    \/ Codegen
    \/ \E o \in BuildOptions : BuildStart(o)
    \/ BuildPage
    \/ BuildEmit
    \/ \E p \in FetchPaths : Fetch(p)

Spec == Init /\ [][Next]_vars

(***************************************************************************)
(* cli/index.ts: buna build, and the marker of the selected runtime.       *)
(***************************************************************************)
\* String.prototype.toLowerCase on the letters A-Z
toLowerCase(s) ==
    LET upper == <<"A", "B", "C", "D", "E", "F", "G", "H", "I", "J", "K", "L", "M",
                   "N", "O", "P", "Q", "R", "S", "T", "U", "V", "W", "X", "Y", "Z">>
        lower == <<"a", "b", "c", "d", "e", "f", "g", "h", "i", "j", "k", "l", "m",
                   "n", "o", "p", "q", "r", "s", "t", "u", "v", "w", "x", "y", "z">>
    IN [i \in 1..Len(s) |->
          IF \E k \in 1..26 : upper[k] = s[i]
          THEN lower[CHOOSE k \in 1..26 : upper[k] = s[i]]
          ELSE s[i]]

\* the keys of BUILD_RUNTIME_PRESETS, as the help text lists them
BuildRuntimes ==
    { <<"b", "u", "n">>, <<"n", "o", "d", "e">>,
      <<"c", "l", "o", "u", "d", "f", "l", "a", "r", "e">> }

isBuildRuntime(value) == value \in BuildRuntimes

StrRuntimeFlag == <<"-", "-", "r", "u", "n", "t", "i", "m", "e">>

\* lines 173-175 and 182-184: the runtime a value names, or the one already found
runtimeOf(value, runtime) ==
    IF value # <<>> /\ isBuildRuntime(toLowerCase(value)) THEN Some(toLowerCase(value))
    ELSE runtime

RECURSIVE extractLoop(_, _, _, _)
\* lines 167-189: the for loop over the arguments
extractLoop(args, i, runtime, rest) ==
    IF i > Len(args) THEN [runtime |-> runtime, rest |-> rest]
    ELSE IF args[i] = <<>> THEN extractLoop(args, i + 1, runtime, rest)
    ELSE IF args[i] = StrRuntimeFlag \/ args[i] = <<"-", "r">>
    THEN extractLoop(args, i + 2,
                     runtimeOf(IF i + 1 <= Len(args) THEN args[i + 1] ELSE <<>>, runtime),
                     rest)
    ELSE IF startsWith(args[i], StrRuntimeFlag \o <<"=">>)
    THEN extractLoop(args, i + 1, runtimeOf(split(args[i], "=")[2], runtime), rest)
    ELSE extractLoop(args, i + 1, runtime, Append(rest, args[i]))

extractBuildRuntimeArg(args) == extractLoop(args, 1, None, <<>>)

StrTurboJson == <<"t", "u", "r", "b", "o", ".", "j", "s", "o", "n">>

RECURSIVE findWorkspaceRoot(_, _)
\* the nearest directory from current upwards that holds turbo.json
findWorkspaceRoot(current, d) ==
    IF join(current, StrTurboJson) \in DOMAIN d THEN Some(current)
    ELSE IF dirname(current) = current THEN None
    ELSE findWorkspaceRoot(dirname(current), d)

\* node_modules/.bin/turbo below the root, or null (the platform is not win32)
resolveTurboBin(root, d) ==
    IF \E candidate \in { <<"t", "u", "r", "b", "o">>, <<"t", "u", "r", "b", "o", ".", "e", "x", "e">> } :
          join(join(root, <<"n", "o", "d", "e", "_", "m", "o", "d", "u", "l", "e", "s", "/", ".", "b", "i", "n">>),
               candidate) \in DOMAIN d
    THEN Some(root)
    ELSE None

BUILD_RUNTIME_MARKER ==
    <<".", "b", "u", "n", "a", "-", "r", "u", "n", "t", "i", "m", "e", "-",
      "t", "a", "r", "g", "e", "t">>

writeRuntimeMarker(d, root, runtime) ==
    MapPut(d, join(root, BUILD_RUNTIME_MARKER), File("marker", runtime))

removeRuntimeMarker(d, root) == MapDel(d, join(root, BUILD_RUNTIME_MARKER))

\* lines 377-388: the workspace root is looked up, the marker written, turbo started
startTurbo(c, root) ==
    IF ~IsSome(root)
    THEN /\ cli' = [c EXCEPT !.pos = "ended", !.error = Some("Could not find a turbo.json")]
         /\ UNCHANGED disk
    ELSE /\ disk' = IF Get(c.runtime) # <<"b", "u", "n">>
                    THEN writeRuntimeMarker(disk, Get(root), Get(c.runtime))
                    ELSE disk
         /\ cli' = [c EXCEPT !.pos = "turbo", !.root = root]

\* lines 194-210: the runtime of the flag, or the one selected at the prompt
ensureBuildRuntimeSelection(c, extracted, selection) ==
    IF IsSome(extracted.runtime)
    THEN startTurbo([c EXCEPT !.rest = extracted.rest, !.runtime = extracted.runtime],
                    findWorkspaceRoot(projectRoot, disk))
    ELSE IF ~IsSome(selection)
    THEN /\ cli' = [c EXCEPT !.rest = extracted.rest, !.pos = "ended"]
         /\ UNCHANGED disk
    ELSE startTurbo([c EXCEPT !.rest = extracted.rest, !.runtime = selection],
                    findWorkspaceRoot(projectRoot, disk))

\* commandHandlers.build up to the start of turbo; selection is the answer at
\* the prompt, None when the prompt is cancelled
BuildCommand(args, selection) ==
    /\ cli.pos = "idle"
    /\ ensureBuildRuntimeSelection([cli EXCEPT !.command = "build", !.args = args],
                                   extractBuildRuntimeArg(args), selection)
    /\ UNCHANGED <<routeFiles, env, calls, buildVars, response, fnIn, fnOut>>

\* TurboExit that leaves the marker when turbo fails
TurboExit_noFinally(code) ==
    /\ cli.command = "build"
    /\ cli.pos = "turbo"
    /\ IF ~IsSome(resolveTurboBin(Get(cli.root), disk))
       THEN /\ cli' = [cli EXCEPT !.pos = "ended", !.error = Some("Turbo is not installed")]
            /\ UNCHANGED disk
       ELSE IF code # 0
       THEN /\ cli' = [cli EXCEPT !.pos = "ended", !.error = Some("Turbo exited with code")]
            /\ UNCHANGED disk
       ELSE /\ cli' = [cli EXCEPT !.pos = "ended"]
            /\ disk' = IF Get(cli.runtime) # <<"b", "u", "n">>
                       THEN removeRuntimeMarker(disk, Get(cli.root))
                       ELSE disk
    /\ UNCHANGED <<routeFiles, env, calls, buildVars, response, fnIn, fnOut>>

\* lines 387-393 with runTurboTask: turbo ends with the exit code, the finally block runs
TurboExit(code) ==
    /\ cli.command = "build"
    /\ cli.pos = "turbo"
    /\ cli' = [cli EXCEPT !.pos = "ended",
                          !.error = IF ~IsSome(resolveTurboBin(Get(cli.root), disk))
                                    THEN Some("Turbo is not installed")
                                    ELSE IF code # 0 THEN Some("Turbo exited with code")
                                    ELSE None]
    /\ disk' = IF Get(cli.runtime) # <<"b", "u", "n">>
               THEN removeRuntimeMarker(disk, Get(cli.root))
               ELSE disk
    /\ UNCHANGED <<routeFiles, env, calls, buildVars, response, fnIn, fnOut>>

(***************************************************************************)
(* buna:prepare: scripts/prepare-buna.ts of the app, and buna prepare.     *)
(***************************************************************************)
StrBuildTs == <<"b", "u", "i", "l", "d", ".", "t", "s">>

\* rm(dir, { recursive: true, force: true })
rmRecursive(d, dir) ==
    [p \in { q \in DOMAIN d : ~startsWith(q, dir \o Slash) } |-> d[p]]

\* import(configUrl): buna.config.ts imports ./.buna/routes.generated
loadConfig(d) == RoutesGeneratedPath \in DOMAIN d

\* runPrepareWorkspace, lines 273-275: the config is loaded before .buna is removed
PrepareLoad ==
    /\ cli.pos = "idle"
    /\ cli' = IF loadConfig(disk)
              THEN [cli EXCEPT !.command = "prepare", !.pos = "loaded"]
              ELSE [cli EXCEPT !.command = "prepare", !.pos = "ended",
                               !.error = Some("Cannot find module ./.buna/routes.generated")]
    /\ UNCHANGED <<routeFiles, disk, env, calls, buildVars, response, fnIn, fnOut>>

\* prepare-buna.ts line 10 / runPrepareWorkspace line 277: .buna is removed
PrepareClean(command) ==
    /\ \/ command = "script" /\ cli.pos = "idle"
       \/ command = "prepare" /\ cli.command = "prepare" /\ cli.pos = "loaded"
    /\ disk' = rmRecursive(disk, ConfigOutDir)
    /\ cli' = [cli EXCEPT !.command = command, !.pos = "cleaned"]
    /\ UNCHANGED <<routeFiles, env, calls, buildVars, response, fnIn, fnOut>>

\* prepare-buna.ts lines 15-37 (buna codegen in a process of its own, which
\* loads the config) / runPrepareWorkspace line 279 (generateRoutes alone)
PrepareCodegen ==
    /\ cli.command \in {"script", "prepare"}
    /\ cli.pos = "cleaned"
    /\ IF cli.command = "script" /\ ~loadConfig(disk)
       THEN /\ cli' = [cli EXCEPT !.pos = "ended",
                                  !.error = Some("buna codegen finalizou com codigo 1")]
            /\ UNCHANGED disk
       ELSE /\ \E files \in getFilesRecursively(ConfigRoutesDir) :
                  disk' = generateRoutes(files)
            /\ cli' = [cli EXCEPT !.pos = "generated"]
    /\ UNCHANGED <<routeFiles, env, calls, buildVars, response, fnIn, fnOut>>

\* prepare-buna.ts lines 12-13, 39-43 / lines 281-282, 286-289: build.ts is written
PrepareBuildScript ==
    /\ cli.command \in {"script", "prepare"}
    /\ cli.pos = "generated"
    /\ disk' = MapPut(disk, join(ConfigOutDir, StrBuildTs), File("ts", "BUILD_RUNNER_TEMPLATE"))
    /\ cli' = [cli EXCEPT !.pos = "ended"]
    /\ UNCHANGED <<routeFiles, env, calls, buildVars, response, fnIn, fnOut>>

(***************************************************************************)
(* The commands of the CLI run in workspaces of every shape.               *)
(***************************************************************************)
MaxArgs == 2      \* arguments after the command name

\* arguments given to buna build
ArgPool ==
    { StrRuntimeFlag, <<"-", "r">>, <<"C", "l", "o", "u", "d", "f", "l", "a", "r", "e">>,
      <<"b", "u", "n">>, StrRuntimeFlag \o <<"=", "n", "o", "d", "e">>,
      <<"-", "-", "f", "o", "r", "c", "e">> }

ArgInputs == { <<>> } \cup UNION { [1..k -> ArgPool] : k \in 1..MaxArgs }

\* what an earlier run of the tools left in .buna
EarlierBuna ==
    MapPut(MapPut(writeRoutesFile(generateLoop(<<RouteCatchAll>>, 1, EmptyMap, EmptyMap)),
                  join(ConfigOutDir, StrBuildTs), File("ts", "old")),
           HandPageZ.path, File("html", HandPageZ.html))

\* turbo.json and the turbo binary, in the directory dir
WithTurbo(d, dir, installed) ==
    IF installed
    THEN MapPut(MapPut(d, join(dir, StrTurboJson), File("json", "turbo")),
                join(dir, <<"n", "o", "d", "e", "_", "m", "o", "d", "u", "l", "e", "s", "/",
                            ".", "b", "i", "n", "/", "t", "u", "r", "b", "o">>),
                File("bin", "turbo"))
    ELSE MapPut(d, join(dir, StrTurboJson), File("json", "turbo"))

CliDisks ==
    { d : d \in { EmptyMap, EarlierBuna } }
    \cup { WithTurbo(d, dir, installed) :
             d \in { EmptyMap, EarlierBuna }, dir \in { Slash, projectRoot },
             installed \in BOOLEAN }

InitCli ==
    /\ routeFiles \in { {RouteA}, {RouteA, RouteId} }
    /\ disk \in CliDisks
    /\ env = Env("ok", {}, {})
    /\ calls = [edits |-> 0, codegenDone |-> FALSE]
    /\ IdleBuild
    /\ fnIn = None
    /\ fnOut = None
    /\ cli = IdleCli

NextCli ==
    \/ \E args \in ArgInputs, selection \in {None} \cup { Some(r) : r \in BuildRuntimes } :
          BuildCommand(args, selection)
    \/ \E code \in {0, 1} : TurboExit(code)
    \/ PrepareLoad
    \/ \E command \in {"script", "prepare"} : PrepareClean(command)
    \/ PrepareCodegen
    \/ PrepareBuildScript

SpecCli == InitCli /\ [][NextCli]_vars


(***************************************************************************)
(* Properties of the build and of the worker it emits.                     *)
(***************************************************************************)
Request == Get(response).pathname
Answer == Get(response).response

AssetUrls == { ctx.assets[i].urlPath : i \in 1..Len(ctx.assets) }

\* the route record matches the path: by its pattern or by its regex
routeMatches(route, pathname) ==
    \/ route.pattern = pathname
    \/ route.regex # None /\ regexTest(route.regex, pathname)

\* C1 as stated: a request for the URL written into a rewritten tag is
\* answered with status 200 and the contents and content type of the asset
\* compiled for the entry of that tag.
C1_RewrittenTagServed ==
    IsSome(response) =>
        \A i \in 1..Len(pageLog.rewrites) :
            LET r == pageLog.rewrites[i] IN
            r.tag.v = Request =>
                /\ Answer.status = 200
                /\ Answer.kind = "asset"
                /\ Answer.body = r.asset.contents
                /\ Answer.contentType = r.asset.contentType

\* C2: the worker answers 404 Not Found exactly when the normalized path is
\* no asset URL, equals no route pattern and matches no route regex, and
\* answers with an asset or with the HTML of a route in every other case.
C2_NotFoundExactly ==
    IsSome(response) =>
        LET pathname == normalizePath(Request)
            unknown == /\ pathname \notin AssetUrls
                       /\ \A i \in 1..Len(routes) : ~routeMatches(routes[i], pathname)
        IN /\ (Answer.status = 404 /\ Answer.kind = "text" /\ Answer.body = "Not Found") <=> unknown
           /\ ~unknown =>
                /\ Answer.status = 200
                /\ \/ /\ Answer.kind = "asset"
                      /\ \E i \in 1..Len(ctx.assets) : Answer.body = ctx.assets[i].contents
                   \/ /\ Answer.kind = "html"
                      /\ \E i \in 1..Len(routes) : Answer.body = routes[i].html

\* a path of two segments was refused by a worker whose route has a regex
C2_Witness ==
    /\ IsSome(response)
    /\ Answer.status = 404
    /\ \E i \in 1..Len(routes) : routes[i].regex # None
    /\ Request = <<"/", "a", "/", "b">>

\* C3: a request whose normalized path is an asset URL is answered with that
\* asset, its content type and the asset Cache-Control value, also when a
\* route matches the path.
C3_AssetBeforeRoute ==
    (IsSome(response) /\ normalizePath(Request) \in AssetUrls) =>
        /\ Answer.status = 200
        /\ Answer.kind = "asset"
        /\ \E i \in 1..Len(ctx.assets) :
              /\ ctx.assets[i].urlPath = normalizePath(Request)
              /\ ctx.assets[i].contents = Answer.body
              /\ ctx.assets[i].contentType = Answer.contentType
        /\ Answer.cacheControl = Get(opts).assetCacheControl

\* an asset URL was requested from a worker one of whose routes matches it
C3_Witness ==
    /\ IsSome(response)
    /\ Request \in AssetUrls
    /\ \E i \in 1..Len(routes) : routeMatches(routes[i], Request)

\* the entry a rewritten tag referenced
entryOfTag(r) ==
    IF r.original.t = "link" /\ r.original.v = StrTailwindcss THEN StrTailwindcss
    ELSE resolve(dirname(r.file), r.original.v)

noRepeat(seq) == \A i, j \in 1..Len(seq) : seq[i] = seq[j] => i = j

compiledEntries == { pageLog.compiled[i] : i \in 1..Len(pageLog.compiled) }

\* C5: in one build no entry is compiled twice, every rewritten tag got the
\* asset of the entry it referenced and tags of the same entry got the same
\* URL, ctx.assets holds exactly one asset per entry compiled, and the
\* assets count returned is that number.
C5_CompiledOnce ==
    /\ noRepeat(pageLog.compiled)
    /\ \A i \in 1..Len(pageLog.rewrites) :
          pageLog.rewrites[i].asset.entryPath = entryOfTag(pageLog.rewrites[i])
    /\ \A i, j \in 1..Len(pageLog.rewrites) :
          pageLog.rewrites[i].asset.entryPath = pageLog.rewrites[j].asset.entryPath =>
              pageLog.rewrites[i].tag = pageLog.rewrites[j].tag
    /\ pc \in {"pages", "done"} =>
          /\ Len(ctx.assets) = Cardinality(compiledEntries)
          /\ { ctx.assets[i].entryPath : i \in 1..Len(ctx.assets) } = compiledEntries
    /\ pc = "done" => Get(result).assets = Cardinality(compiledEntries)

\* a build ended whose pages reference one script from two pages
C5_Witness ==
    /\ pc = "done"
    /\ \E i, j \in 1..Len(pageLog.rewrites) :
          /\ pageLog.rewrites[i].file # pageLog.rewrites[j].file
          /\ pageLog.rewrites[i].original.t = "script"
          /\ pageLog.rewrites[j].original.t = "script"
          /\ pageLog.rewrites[i].asset = pageLog.rewrites[j].asset

\* the file at the worker path of the build is as it was when the build started
workerFileUnchanged ==
    LET w == WorkerPath(Get(opts)) IN
    IF w \in DOMAIN snapshot THEN w \in DOMAIN disk /\ disk[w] = snapshot[w]
    ELSE w \notin DOMAIN disk

\* C6: a build that fails throws and returns nothing, worker.js is as it was
\* before the build until every page was read and transformed, and so it is
\* after a failed build.
C6_FailedBuildKeepsWorker ==
    /\ pc \in {"pages", "failed"} => workerFileUnchanged
    /\ pc = "failed" => (result = None /\ IsSome(pageLog.error))
    /\ pc = "done" => (Len(routes) = Len(htmlFiles) /\ idx > Len(htmlFiles))

\* a build failed at a later page while an earlier worker.js was at its worker path
C6_Witness ==
    /\ pc = "failed"
    /\ Len(routes) >= 1
    /\ WorkerPath(Get(opts)) \in DOMAIN snapshot

\* the output directory of the options, as the documentation gives it
documentedOutDir(o) ==
    IF ~IsSome(o.outDir) THEN ConfigOutDir \o Slash \o StrCloudflareWorker
    ELSE IF Get(o.outDir)[1] = "/" THEN Get(o.outDir)
    ELSE projectRoot \o Slash \o Get(o.outDir)

\* the files the build created or changed
writtenFiles == { p \in DOMAIN disk : p \notin DOMAIN snapshot \/ disk[p] # snapshot[p] }

isTailwindLink(tok) == tok.t = "link" /\ tok.v = StrTailwindcss /\ ~tok.asset

tailwindAssets == { i \in 1..Len(ctx.assets) : ctx.assets[i].entryPath = StrTailwindcss }

TailwindErrors == { "Falha ao compilar tailwindcss", "Falha ao gerar CSS do Tailwind" }

\* C9: without the Tailwind plugin no build fails because of Tailwind, every
\* tailwindcss link tag is in the built page as it was in the source and the
\* asset table has no Tailwind asset; with the plugin every such tag of every
\* page is the link to the one Tailwind asset.
C9_TailwindOptional ==
    /\ (pc = "failed" /\ env.tailwind = "missing") => Get(pageLog.error) \notin TailwindErrors
    /\ pc = "done" =>
          /\ Cardinality(tailwindAssets) <= 1
          /\ env.tailwind = "missing" => tailwindAssets = {}
          /\ \A i \in 1..Len(routes) :
                LET source == snapshot[htmlFiles[i]].data IN
                \A j \in 1..Len(source) :
                    isTailwindLink(source[j]) =>
                        IF env.tailwind = "missing"
                        THEN routes[i].html[j] = source[j]
                        ELSE \E k \in tailwindAssets :
                                routes[i].html[j] = linkAssetTag(ctx.assets[k].urlPath)

\* a build of two pages with tailwindcss links ended without the plugin
C9_Witness ==
    /\ pc = "done"
    /\ env.tailwind = "missing"
    /\ Len(routes) >= 2
    /\ \A i \in 1..Len(routes) : \E j \in 1..Len(routes[i].html) : isTailwindLink(routes[i].html[j])

\* the .html pages under <outDir>/pages
pagesOnDisk == { p \in DOMAIN disk : startsWith(p, PagesDir \o Slash) /\ endsWith(p, HtmlExt) }

\* the page loads the route file as its module script
pageOf(p, f) ==
    \E j \in 1..Len(disk[p].data) :
        LET tok == disk[p].data[j] IN
        tok.t = "script" /\ tok.module /\ resolve(dirname(p), tok.v) = f

pagesMatchRouteFiles ==
    /\ \A p \in pagesOnDisk : Cardinality({ f \in routeFiles : pageOf(p, f) }) = 1
    /\ \A f \in routeFiles : Cardinality({ p \in pagesOnDisk : pageOf(p, f) }) = 1

noHandPage == \A h \in HandPages : h.path \notin DOMAIN disk

\* C10 as stated: once a codegen run completed, the .html pages under
\* <outDir>/pages (no page was written by hand) correspond one to one to the
\* route files under routesDir.
C10_CodegenUpToDate ==
    (calls.codegenDone /\ noHandPage) => pagesMatchRouteFiles

(***************************************************************************)
(* The pure functions, applied to inputs drawn from bounded pools.         *)
(***************************************************************************)
MaxRouteDepth == 2      \* directories + file name of a route file
MaxPatternSegs == 2     \* segments of a route pattern
MaxPathSegs == 3        \* segments of a request path
MaxPrefixLen == 3       \* characters of an assetsBasePath
MaxHashLen == 7         \* characters of a hashed text

SeqsUpTo(S, n) == UNION { [1..k -> S] : k \in 1..n }

\* names of directories and route files (extension apart)
RouteSegPool ==
    { StrIndex, <<"a">>, <<"[", "i", "d", "]">>, <<"[", ".", ".", ".", "s", "]">>,
      <<"[", "]">>, <<"b", ".", "c">> }

RouteInputs ==
    { [kind |-> "route", segs |-> segs, ext |-> ext] :
        segs \in SeqsUpTo(RouteSegPool, MaxRouteDepth), ext \in ScriptExts }

PatternSegPool == { <<"a">>, <<":", "i", "d">>, <<"*">>, <<"a", ".", "b">> }

PathSegPool == { <<"a">>, <<>>, <<"a", ".", "b">>, <<"a", "x", "b">> }

MatchInputs ==
    { [kind |-> "match", pattern |-> pattern, path |-> path] :
        pattern \in SeqsUpTo(PatternSegPool, MaxPatternSegs),
        path \in SeqsUpTo(PathSegPool, MaxPathSegs) }

\* the string of a list of segments: a slash before each
pathOf(segs) == Slash \o joinWith(segs, Slash)

\* route files for the page generated from them: the names of RouteSegPool,
\* a name with a double quote, and a file whose name is the extension alone
PageInputs ==
    { [kind |-> "page", segs |-> segs, ext |-> ext] :
        segs \in SeqsUpTo(RouteSegPool \cup { <<"q", "\"", "r">>, <<"\"", "q">> }, MaxRouteDepth)
                 \cup { <<d, <<>>>> : d \in RouteSegPool },
        ext \in ScriptExts }

\* values of the option assetsBasePath
PrefixInputs ==
    { [kind |-> "prefix", value |-> v] :
        v \in SeqsUpTo({ "/", "x" }, MaxPrefixLen) \cup { <<>>, DEFAULT_ASSET_PREFIX } }

\* stylesheets: a path below the project and the text of the file
HashInputs ==
    { [kind |-> "hash", path |-> path, contents |-> contents] :
        path \in DOMAIN CssFiles,
        contents \in SeqsUpTo({ " ", "a", "~" }, MaxHashLen) \cup { <<>> } }

InitPure ==
    /\ routeFiles = {}
    /\ disk = EmptyMap
    /\ env = Env("ok", {}, {})
    /\ calls = [edits |-> 0, codegenDone |-> FALSE]
    /\ IdleBuild
    /\ fnIn \in RouteInputs \cup MatchInputs \cup PageInputs \cup PrefixInputs \cup HashInputs
    /\ fnOut = None
    /\ cli = IdleCli

\* filePathToRoute(<routesDir>/<segs joined><ext>, routesDir)
ApplyFilePathToRoute ==
    /\ fnOut = None
    /\ fnIn.kind = "route"
    /\ fnOut' = Some(filePathToRoute(join(ConfigRoutesDir, joinWith(fnIn.segs, Slash) \o fnIn.ext),
                                     ConfigRoutesDir))
    /\ UNCHANGED <<routeFiles, disk, env, calls, buildVars, response, fnIn, cli>>

\* a worker whose only route has the pattern, asked for the path
ApplyMatch ==
    /\ fnOut = None
    /\ fnIn.kind = "match"
    /\ LET pattern == pathOf(fnIn.pattern)
           regex == compilePatternToRegex(pattern)
           worker == createWorkerSource(
                        [routes |-> << [pattern |-> pattern, html |-> <<>>, regex |-> regex] >>,
                         assets |-> <<>>,
                         htmlCacheControl |-> DEFAULT_HTML_CACHE,
                         assetCacheControl |-> DEFAULT_STATIC_CACHE])
           normalized == normalizePath(pathOf(fnIn.path))
       IN fnOut' = Some([regex |-> regex, normalized |-> normalized,
                         matched |-> IsSome(matchHtmlRoute(worker, normalized))])
    /\ UNCHANGED <<routeFiles, disk, env, calls, buildVars, response, fnIn, cli>>

\* what the builder makes of the page generateRoutes wrote for a route file
pagePatterns(e) ==
    [routePath |-> e.routePath,
     extracted |-> extractRoutePattern(e.htmlContent),
     inferred |-> inferRouteFromFile(e.htmlDiskPath, PagesDir),
     pattern |-> patternOf(extractRoutePattern(e.htmlContent), e.htmlDiskPath)]

\* generateRoutes on <routesDir>/<segs joined><ext>, then line 105 of the builder
ApplyBuilderPattern ==
    /\ fnOut = None
    /\ fnIn.kind = "page"
    /\ fnOut' = Some(pagePatterns(routeEntry(join(ConfigRoutesDir,
                                                  joinWith(fnIn.segs, Slash) \o fnIn.ext))))
    /\ UNCHANGED <<routeFiles, disk, env, calls, buildVars, response, fnIn, cli>>

\* the file name an asset gets in the pure runs
StrHashedName == <<"a", "-", "1", "f", ".", "j", "s">>

\* line 94, then the URL of lines 295, 322 and 374 for a file name
ApplySanitizeAssetPrefix ==
    /\ fnOut = None
    /\ fnIn.kind = "prefix"
    /\ fnOut' = Some([prefix |-> sanitizeAssetPrefix(fnIn.value),
                      urlPath |-> assetUrl([assetsBasePath |-> sanitizeAssetPrefix(fnIn.value)],
                                           StrHashedName)])
    /\ UNCHANGED <<routeFiles, disk, env, calls, buildVars, response, fnIn, cli>>

\* hashString of the text, and lines 320-322 for a stylesheet with that text
ApplyHashString ==
    /\ fnOut = None
    /\ fnIn.kind = "hash"
    /\ fnOut' = Some([hash |-> hashBytes(utf8Encode(fnIn.contents), 1, [hi |-> 0, lo |-> 0]),
                      hex |-> hashString(fnIn.contents),
                      urlPath |-> assetUrl(EmptyCtx,
                                           cssFilename(EmptyCtx.projectRoot, fnIn.path, fnIn.contents))])
    /\ UNCHANGED <<routeFiles, disk, env, calls, buildVars, response, fnIn, cli>>

NextPure ==
    \/ ApplyFilePathToRoute
    \/ ApplyMatch
    \/ ApplyBuilderPattern
    \/ ApplySanitizeAssetPrefix
    \/ ApplyHashString

SpecPure == InitPure /\ [][NextPure]_vars

(***************************************************************************)
(* Properties.                                                             *)
(***************************************************************************)
RouteApplied == IsSome(fnOut) /\ fnIn.kind = "route"
MatchApplied == IsSome(fnOut) /\ fnIn.kind = "match"

\* the route of a list of path segments, segment by segment
segmentRoute(seg) ==
    IF Len(seg) >= 5 /\ SubSeq(seg, 1, 4) = <<"[", ".", ".", ".">> /\ seg[Len(seg)] = "]"
    THEN <<"*">>
    ELSE IF Len(seg) >= 2 /\ seg[1] = "[" /\ seg[Len(seg)] = "]"
    THEN <<":">> \o SubSeq(seg, 2, Len(seg) - 1)
    ELSE seg

segmentsRoute(segs) ==
    LET core == IF segs[Len(segs)] = StrIndex THEN SubSeq(segs, 1, Len(segs) - 1) ELSE segs
    IN IF Len(core) = 0 THEN Slash
       ELSE pathOf([i \in 1..Len(core) |-> segmentRoute(core[i])])

\* C7: filePathToRoute maps a route file to the route path made of its path
\* below routesDir: the extension dropped, a final segment index dropped, a
\* segment [name] turned into :name, a segment [...name] into *, the rest
\* joined by slashes after a leading slash, and / when no segment remains.
C7_FilePathToRoute ==
    RouteApplied => Get(fnOut) = segmentsRoute(fnIn.segs)

\* a nested index file below a parameter directory and a catch-all file were mapped
C7_Witness ==
    /\ RouteApplied
    /\ Len(fnIn.segs) = 2
    /\ fnIn.segs[1] = <<"[", ".", ".", ".", "s", "]">>
    /\ fnIn.segs[2] = StrIndex
    /\ Get(fnOut) = <<"/", "*">>

isParamSeg(seg) == Len(seg) >= 1 /\ seg[1] = ":"

hasParamSeg(pattern) == \E i \in 1..Len(pattern) : isParamSeg(pattern[i])

hasStarSeg(pattern) == \E i \in 1..Len(pattern) : pattern[i] = <<"*">>

\* the segments of the normalized path: one trailing slash dropped
normalizedSegs(path) ==
    IF Len(path) >= 2 /\ path[Len(path)] = <<>> THEN SubSeq(path, 1, Len(path) - 1) ELSE path

\* same number of segments, literal segments equal, parameter segments not empty
segmentwiseMatch(pattern, path) ==
    /\ Len(path) = Len(pattern)
    /\ \A i \in 1..Len(pattern) :
          IF isParamSeg(pattern[i]) THEN path[i] # <<>>
          ELSE IF pattern[i] = <<"*">> THEN TRUE
          ELSE path[i] = pattern[i]

\* C4 as stated: every pattern with a parameter segment matches a normalized
\* path exactly when both have the same number of segments, the literal
\* segments are equal and the parameter segments are not empty.
C4_AsStated ==
    (MatchApplied /\ hasParamSeg(fnIn.pattern)) =>
        (Get(fnOut).matched <=> segmentwiseMatch(fnIn.pattern, normalizedSegs(fnIn.path)))

\* C4: a pattern with a parameter segment and no * segment matches a
\* normalized path exactly when both have the same number of segments, the
\* literal segments are equal and every parameter segment is not empty (and
\* holds no slash); a pattern with neither : nor * has no regex and matches
\* only the path equal to it.
C4_ParamPatternMatch ==
    MatchApplied =>
        LET pattern == fnIn.pattern
            path == normalizedSegs(fnIn.path)
            out == Get(fnOut)
        IN /\ (hasParamSeg(pattern) /\ ~hasStarSeg(pattern)) =>
                 (out.matched <=> segmentwiseMatch(pattern, path))
           /\ (~includes(pathOf(pattern), ":") /\ ~includes(pathOf(pattern), "*")) =>
                 /\ out.regex = None
                 /\ out.matched <=> (out.normalized = pathOf(pattern))

\* a pattern of a literal with a dot and a parameter matched a path of two segments
C4_Witness ==
    /\ MatchApplied
    /\ fnIn.pattern = << <<"a", ".", "b">>, <<":", "i", "d">> >>
    /\ fnIn.path = << <<"a", ".", "b">>, <<"a", "x", "b">>, <<>> >>
    /\ Get(fnOut).matched

(***************************************************************************)
(* Properties of the commands of the CLI.                                  *)
(***************************************************************************)
\* the files below .buna, with their contents
bunaFiles == [p \in { q \in DOMAIN disk : startsWith(q, ConfigOutDir \o Slash) } |-> disk[p]]

\* .buna as a run of codegen over the route files in the order files, then
\* of the build script step, fills an empty directory
freshBuna(files) ==
    MapPut(writeRoutesFile(generateLoop(files, 1, EmptyMap, EmptyMap)),
           join(ConfigOutDir, StrBuildTs), File("ts", "BUILD_RUNNER_TEMPLATE"))

\* C11: when buna:prepare has ended, whatever .buna held before, it ended
\* without an error and .buna holds exactly routes.generated.ts and the pages
\* of the route files as generated by this run, and build.ts
C11_PrepareRefreshes ==
    (cli.command \in {"script", "prepare"} /\ cli.pos = "ended")
    => /\ cli.error = None
       /\ \E files \in getFilesRecursively(ConfigRoutesDir) : bunaFiles = freshBuna(files)

RECURSIVE withoutRuntimeFlag(_)
\* the arguments without the runtime flag in its three forms and without the
\* argument that follows --runtime or -r
withoutRuntimeFlag(args) ==
    IF args = <<>> THEN <<>>
    ELSE IF Head(args) \in { StrRuntimeFlag, <<"-", "r">> }
    THEN IF Len(args) = 1 THEN <<>> ELSE withoutRuntimeFlag(Tail(Tail(args)))
    ELSE IF startsWith(Head(args), StrRuntimeFlag \o <<"=">>)
    THEN withoutRuntimeFlag(Tail(args))
    ELSE <<Head(args)>> \o withoutRuntimeFlag(Tail(args))

\* the marker files on the disk
markerFiles == { p \in DOMAIN disk : endsWith(p, BUILD_RUNTIME_MARKER) }

\* C12: while turbo runs for buna build with a runtime other than bun, the
\* marker file in the workspace root holds the name of the runtime; with the
\* runtime bun there is no marker file; when the command has ended, after
\* success or failure of turbo, there is no marker file; and the arguments
\* handed to turbo are the given ones without the runtime flag and its value
C12_RuntimeMarker ==
    (cli.command = "build" /\ cli.pos \in {"turbo", "ended"})
    => /\ cli.rest = withoutRuntimeFlag(cli.args)
       /\ cli.pos = "turbo" =>
             /\ Get(cli.runtime) \in BuildRuntimes
             /\ IF Get(cli.runtime) = <<"b", "u", "n">>
                THEN markerFiles = {}
                ELSE /\ markerFiles = { join(Get(cli.root), BUILD_RUNTIME_MARKER) }
                     /\ disk[join(Get(cli.root), BUILD_RUNTIME_MARKER)].data = Get(cli.runtime)
       /\ cli.pos = "ended" => markerFiles = {}

\* turbo failed for a build for cloudflare whose flag was taken from the arguments
C12_Witness ==
    /\ cli.command = "build"
    /\ cli.pos = "ended"
    /\ cli.error = Some("Turbo exited with code")
    /\ cli.runtime = Some(<<"c", "l", "o", "u", "d", "f", "l", "a", "r", "e">>)
    /\ Len(cli.rest) = Len(cli.args) - 2
    /\ markerFiles = {}

(***************************************************************************)
(* Properties of the output of the Cloudflare build.                       *)
(***************************************************************************)
\* the files the disk holds below the directory name of the worker output directory
outputBelow(name) ==
    { p \in DOMAIN disk : startsWith(p, join(resolvedOutDir(Get(opts)), name) \o Slash) }

\* C13: after a build, the worker output directory holds, besides worker.js,
\* every asset of the build in a file below assets/ and the HTML of every
\* page of the build in a file below pages/
C13_AssetsAndPagesDirs ==
    pc = "done"
    => /\ WorkerPath(Get(opts)) \in DOMAIN disk
       /\ \A i \in 1..Len(ctx.assets) :
             \E p \in outputBelow(<<"a", "s", "s", "e", "t", "s">>) :
                disk[p].data = ctx.assets[i].contents
       /\ \A i \in 1..Len(routes) :
             \E p \in outputBelow(StrPages) : disk[p].data = routes[i].html

(***************************************************************************)
(* Properties of the route table.                                          *)
(***************************************************************************)
\* the routes of the table that are literal and whose pattern is the path
literalRoutesAt(pathname) ==
    { i \in 1..Len(routes) :
        /\ ~includes(routes[i].pattern, ":")
        /\ ~includes(routes[i].pattern, "*")
        /\ routes[i].pattern = pathname }

\* C14: a request whose normalized path is the pattern of a literal route
\* (and no asset URL) is answered with the HTML of a literal route of that
\* pattern, whatever else the route table holds and in whatever order
C14_LiteralRouteWins ==
    (IsSome(response) /\ normalizePath(Request) \notin AssetUrls)
    => \/ literalRoutesAt(normalizePath(Request)) = {}
       \/ /\ Answer.kind = "html"
          /\ \E i \in literalRoutesAt(normalizePath(Request)) : Answer.body = routes[i].html

\* C15: the assets of a build have pairwise distinct URL paths, so that the
\* STATIC_ASSETS map of the emitted worker has one entry for each of them
C15_DistinctAssetUrls ==
    /\ \A i, j \in 1..Len(ctx.assets) :
          ctx.assets[i].urlPath = ctx.assets[j].urlPath => i = j
    /\ pc = "done" =>
          Cardinality(DOMAIN disk[Get(result).workerPath].data.STATIC_ASSETS) = Len(ctx.assets)

(***************************************************************************)
(* Properties of the route of a generated page.                            *)
(***************************************************************************)
PageApplied == IsSome(fnOut) /\ fnIn.kind = "page"

\* C16: the pattern the builder assigns to the page generated from a route
\* file, read from data-buna-route, is the route path generateRoutes computed
C16_PagePatternIsRoutePath ==
    PageApplied =>
        /\ Get(fnOut).extracted = Some(Get(fnOut).routePath)
        /\ Get(fnOut).pattern = Get(fnOut).routePath

\* C17: inferRouteFromFile of the page generated from a route file is the
\* route path filePathToRoute gives for the route file
C17_InferredIsRoutePath ==
    PageApplied => Get(fnOut).inferred = Get(fnOut).routePath

(***************************************************************************)
(* Properties of the routes of the route files.                            *)
(***************************************************************************)
\* C18: after codegen, distinct route files have distinct route paths and
\* the generated routes object has one key for each route file
C18_DistinctRoutePaths ==
    calls.codegenDone
    => /\ \A f, g \in routeFiles :
             RouteEntries[f].routePath = RouteEntries[g].routePath => f = g
       /\ Cardinality(DOMAIN disk[RoutesGeneratedPath].data) = Cardinality(routeFiles)

(***************************************************************************)
(* Properties of the paths the worker looks up.                            *)
(***************************************************************************)
\* the worker the last build emitted
emittedWorker == disk[Get(result).workerPath].data

\* C19: a requested path that does not end with a slash is looked up as it
\* is and gets the response the same path followed by one slash gets; the
\* path / is looked up unchanged; a path ending with a slash gets the
\* response of the path without that one slash, and no second slash is removed
C19_TrailingSlash ==
    IsSome(response)
    => /\ ~endsWith(Request, Slash) =>
             /\ normalizePath(Request) = Request
             /\ fetch(emittedWorker, Request \o Slash) = Answer
       /\ Request = Slash => normalizePath(Request) = Slash
       /\ (endsWith(Request, Slash) /\ Len(Request) > 1) =>
             /\ normalizePath(Request) = dropLast(Request, 1)
             /\ Answer = IF IsSome(serveAsset(emittedWorker, dropLast(Request, 1)))
                         THEN Get(serveAsset(emittedWorker, dropLast(Request, 1)))
                         ELSE IF IsSome(matchHtmlRoute(emittedWorker, dropLast(Request, 1)))
                         THEN Response(200, "html",
                                       Get(matchHtmlRoute(emittedWorker, dropLast(Request, 1))).html,
                                       emittedWorker.HTML_HEADERS.contentType,
                                       emittedWorker.HTML_HEADERS.cacheControl)
                         ELSE Response(404, "text", "Not Found", "text/plain;charset=UTF-8", "")

\* the page of /a was served for the path /a/
C19_Witness ==
    /\ IsSome(response)
    /\ Request = <<"/", "a", "/">>
    /\ Answer.kind = "html"
    /\ \E i \in 1..Len(routes) : routes[i].pattern = <<"/", "a">> /\ routes[i].html = Answer.body

(***************************************************************************)
(* Properties of catch-all routes.                                         *)
(***************************************************************************)
\* the pattern is literal segments followed by one catch-all segment
isCatchAllBelow(pattern) ==
    /\ Len(pattern) >= 2
    /\ pattern[Len(pattern)] = <<"*">>
    /\ \A i \in 1..(Len(pattern) - 1) :
          ~includes(pattern[i], ":") /\ ~includes(pattern[i], "*")

\* C20: a catch-all route /p/* matches a normalized path exactly when the
\* path starts with /p/ (anything, nothing included, may follow); /p itself
\* does not match
C20_CatchAllMatch ==
    (MatchApplied /\ isCatchAllBelow(fnIn.pattern))
    => /\ Get(fnOut).regex # None
       /\ Get(fnOut).matched
            <=> startsWith(Get(fnOut).normalized,
                           pathOf(SubSeq(fnIn.pattern, 1, Len(fnIn.pattern) - 1)) \o Slash)
       /\ Get(fnOut).normalized = pathOf(SubSeq(fnIn.pattern, 1, Len(fnIn.pattern) - 1))
            => ~Get(fnOut).matched

\* the catch-all route below /a matched a path with two more segments
C20_Witness ==
    /\ MatchApplied
    /\ fnIn.pattern = << <<"a">>, <<"*">> >>
    /\ Get(fnOut).normalized = <<"/", "a", "/", "a", "/", "a">>
    /\ Get(fnOut).matched

(***************************************************************************)
(* Properties of the transformed pages.                                    *)
(***************************************************************************)
\* the page file of the k-th route of the table, as read from the disk
pageSource(k) == disk[htmlFiles[k]].data

\* the tag is one the claim says is replaced: a module script or a stylesheet
\* link whose reference starts with ./ or ../
isRelativeTag(tok) ==
    \/ tok.t = "script" /\ tok.module /\ isRelativeAsset(tok.v)
    \/ tok.t = "link" /\ isRelativeAsset(tok.v)

\* out is tok replaced by the tag of the asset compiled for its reference
isAssetTagOf(out, tok, file) ==
    /\ out.t = tok.t
    /\ out.asset
    /\ \E a \in 1..Len(ctx.assets) :
          /\ ctx.assets[a].entryPath = resolve(dirname(file), tok.v)
          /\ ctx.assets[a].urlPath = out.v

\* C21 as stated: in the output of every transformed page each relative
\* module script and each relative stylesheet link is replaced by the tag of
\* its asset, and every other tag and all text is as in the page
C21_AsStated ==
    \A k \in 1..Len(routes) :
        /\ Len(routes[k].html) = Len(pageSource(k))
        /\ \A i \in 1..Len(pageSource(k)) :
              IF isRelativeTag(pageSource(k)[i])
              THEN isAssetTagOf(routes[k].html[i], pageSource(k)[i], htmlFiles[k])
              ELSE routes[k].html[i] = pageSource(k)[i]

\* C21 amended: as stated, except that the stylesheet link whose href is
\* tailwindcss is replaced by the link of the Tailwind asset when the build
\* has one, and is unchanged when the plugin is not available
C21_OnlyReplacedTagsChange ==
    \A k \in 1..Len(routes) :
        /\ Len(routes[k].html) = Len(pageSource(k))
        /\ \A i \in 1..Len(pageSource(k)) :
              IF isRelativeTag(pageSource(k)[i])
              THEN isAssetTagOf(routes[k].html[i], pageSource(k)[i], htmlFiles[k])
              ELSE IF pageSource(k)[i].t = "link" /\ pageSource(k)[i].v = StrTailwindcss
                      /\ IsSome(ctx.tailwindAsset)
              THEN routes[k].html[i] = linkAssetTag(Get(ctx.tailwindAsset).urlPath)
              ELSE routes[k].html[i] = pageSource(k)[i]

\* a page with the same relative link twice, a script that is no module and
\* a remote link was transformed: both occurrences replaced, the others kept
C21_Witness ==
    \E k \in 1..Len(routes) :
        /\ htmlFiles[k] = HandPageX.path
        /\ routes[k].html[1].asset
        /\ routes[k].html[5].asset
        /\ routes[k].html[1] = routes[k].html[5]
        /\ routes[k].html[3] = HandPageX.html[3]
        /\ routes[k].html[7] = HandPageX.html[7]

(***************************************************************************)
(* Properties of the asset prefix and of the hash.                         *)
(***************************************************************************)
PrefixApplied == IsSome(fnOut) /\ fnIn.kind = "prefix"
HashApplied == IsSome(fnOut) /\ fnIn.kind = "hash"

\* C22: for every assetsBasePath the sanitized prefix starts with a slash and
\* does not end with one, and the URL of an asset is the prefix, one slash and
\* the file name
C22_SanitizedPrefix ==
    PrefixApplied =>
        /\ startsWith(Get(fnOut).prefix, Slash)
        /\ ~endsWith(Get(fnOut).prefix, Slash)
        /\ Get(fnOut).urlPath = Get(fnOut).prefix \o Slash \o StrHashedName

(***************************************************************************)
(* Properties of the temporary Tailwind entry.                             *)
(***************************************************************************)
\* C23: when buildCloudflareWorker has ended, by returning or by throwing,
\* the file __tailwind-entry.css of the output directory does not exist
C23_TailwindEntryRemoved ==
    pc \in { "done", "failed" } => TailwindEntryPath \notin DOMAIN disk

(***************************************************************************)
(* Properties of hashString.  A value below 2^32 is a pair of 16-bit       *)
(* halves; the recurrence is computed by additions modulo 2^32.            *)
(***************************************************************************)
\* the UTF-8 byte of a character of the hashed texts
byteOf(c) == CASE c = " " -> 32 [] c = "a" -> 97 [] c = "~" -> 126

\* x + y modulo 2^32
addMod32(x, y) ==
    [hi |-> (x.hi + y.hi + ((x.lo + y.lo) \div HalfWord)) % HalfWord,
     lo |-> (x.lo + y.lo) % HalfWord]

\* 2 * x modulo 2^32
twiceMod32(x) == addMod32(x, x)

\* 31 * x modulo 2^32, as x + 2x + 4x + 8x + 16x
times31Mod32(x) ==
    addMod32(x,
      addMod32(twiceMod32(x),
        addMod32(twiceMod32(twiceMod32(x)),
          addMod32(twiceMod32(twiceMod32(twiceMod32(x))),
                   twiceMod32(twiceMod32(twiceMod32(twiceMod32(x))))))))

RECURSIVE hashOfPrefix(_, _)
\* h_i of the text: h_0 = 0, h_i = (31 * h_(i-1) + b_i) mod 2^32
hashOfPrefix(text, i) ==
    IF i = 0 THEN [hi |-> 0, lo |-> 0]
    ELSE addMod32(times31Mod32(hashOfPrefix(text, i - 1)), [hi |-> 0, lo |-> byteOf(text[i])])

RECURSIVE stripZeros(_)
\* the digits without leading zeros, one digit at least
stripZeros(digits) ==
    IF Len(digits) > 1 /\ digits[1] = "0" THEN stripZeros(Tail(digits)) ELSE digits

\* the hexadecimal digits of a 16-bit half
nibbles(n) ==
    << HexDigits[(n \div 4096) + 1], HexDigits[((n \div 256) % 16) + 1],
       HexDigits[((n \div 16) % 16) + 1], HexDigits[(n % 16) + 1] >>

\* C24: hashString returns in hexadecimal the value h_n of the recurrence
\* h_0 = 0, h_i = (31 * h_(i-1) + b_i) mod 2^32 over the bytes of its input,
\* a value in 0..2^32-1, and the URL of a stylesheet is made of the prefix,
\* the slug of its path and that hash of its contents, nothing else
C24_HashRecurrence ==
    HashApplied =>
        /\ Get(fnOut).hash = hashOfPrefix(fnIn.contents, Len(fnIn.contents))
        /\ Get(fnOut).hash.hi \in 0..(HalfWord - 1)
        /\ Get(fnOut).hash.lo \in 0..(HalfWord - 1)
        /\ Get(fnOut).hex = stripZeros(nibbles(Get(fnOut).hash.hi) \o nibbles(Get(fnOut).hash.lo))
        /\ Get(fnOut).urlPath =
              DEFAULT_ASSET_PREFIX \o Slash
                \o slugify(stripCssExt(relative(projectRoot, fnIn.path)))
                \o <<"-">> \o Get(fnOut).hex \o <<".", "c", "s", "s">>

\* a text of seven characters was hashed: the sum passed 2^32 and the high
\* half of the result is not zero
C24_Witness ==
    /\ HashApplied
    /\ Len(fnIn.contents) = 7
    /\ Get(fnOut).hash.hi > 0
    /\ Len(Get(fnOut).hex) > 4

====
